---------------------------- MODULE Spec2Model ----------------------------
(***************************************************************************)
(* Model of the ranked-war bot of src/main.py: the poller                  *)
(* (get_opponent_faction, check_targets, check_war_status,                 *)
(* announce_war_result), the claim registry (claim_target, unclaim_target) *)
(* and the attack ledger (record_attack, delete_attack_record).            *)
(*                                                                         *)
(* Python dicts are functions with a finite domain of keys; the empty dict *)
(* is the empty function.  None is the string "None".  Handlers are        *)
(* coroutines: one action is the code that runs between two awaits.        *)
(***************************************************************************)
EXTENDS Integers, Sequences, FiniteSets, TLC

\* ------------------------------------------------------------------------
\* Program constants and bounds
\* ------------------------------------------------------------------------
FACTION_ID == 7
DEFAULT_TARGET == 6000

MaxWars == 2
MaxAttacks == 2
MaxHistory == 2
MaxMembers == 2
MaxUsers == 2

None == "None"
EmptyDict == [k \in {} |-> 0]

Members == 1..MaxMembers
Users == 11..(10 + MaxUsers)
PointValues == {1, 3}

\* ------------------------------------------------------------------------
\* Python built-ins
\* ------------------------------------------------------------------------
Digit == <<"0", "1", "2", "3", "4", "5", "6", "7", "8", "9">>

\* str(n) for a small non-negative integer
str(n) == IF n < 10 THEN Digit[n + 1] ELSE Digit[(n \div 10) + 1] \o Digit[(n % 10) + 1]

\* int(s) for a decimal string
int(s) == CHOOSE n \in 0..99 : str(n) = s

\* d.get(k, default)
Get(d, k, default) == IF k \in DOMAIN d THEN d[k] ELSE default

\* ------------------------------------------------------------------------
\* Upstream payloads of /v2/faction/<id>/rankedwars
\*
\* A faction is [id, name, score, chain].  The "factions" field of a war
\* entry is [shape |-> "list", items |-> <<faction, ...>>] or
\* [shape |-> "dict", items |-> <<[key |-> "8", val |-> faction], ...>>]
\* (a JSON object in its key order).  A war entry is
\* [id, has_end, end, start, target, factions]; has_end = FALSE is an entry
\* without the "end" key.
\* ------------------------------------------------------------------------
Faction(id, name, score, chain) == [id |-> id, name |-> name, score |-> score, chain |-> chain]

AsList(fs) == [shape |-> "list", items |-> fs]

\* the same factions as a mapping keyed by faction id
AsDict(fs) == [shape |-> "dict", items |-> [i \in 1..Len(fs) |-> [key |-> str(fs[i].id), val |-> fs[i]]]]

\* Optional values: <<>> is None, <<x>> is x.
\* Lines 332-338: every faction of a list whose id is FACTION_ID becomes
\* our_faction_data, every other one becomes opponent_faction (last wins).
RECURSIVE ScanList(_, _, _)
ScanList(items, i, acc) ==
    IF i > Len(items) THEN acc
    ELSE IF items[i].id = FACTION_ID
         THEN ScanList(items, i + 1, [acc EXCEPT !.our = <<items[i]>>])
         ELSE ScanList(items, i + 1, [acc EXCEPT !.opp = <<items[i]>>])

\* ScanDict without the else of line 345: every item becomes the opponent
RECURSIVE ScanDict_noelse(_, _, _)
ScanDict_noelse(items, i, acc) ==
    IF i > Len(items) THEN acc
    ELSE LET a == IF int(items[i].key) = FACTION_ID \/ items[i].val.id = FACTION_ID
                  THEN [acc EXCEPT !.our = <<items[i].val>>] ELSE acc
         IN  ScanDict_noelse(items, i + 1, [a EXCEPT !.opp = <<items[i].val>>])

\* Lines 341-347: the same over the items of a dict, matching the key or
\* the faction's own id.
RECURSIVE ScanDict(_, _, _)
ScanDict(items, i, acc) ==
    IF i > Len(items) THEN acc
    ELSE IF int(items[i].key) = FACTION_ID \/ items[i].val.id = FACTION_ID
         THEN ScanDict(items, i + 1, [acc EXCEPT !.our = <<items[i].val>>])
         ELSE ScanDict(items, i + 1, [acc EXCEPT !.opp = <<items[i].val>>])

\* Lines 326-347
ScanFactions(factions) ==
    IF factions.shape = "list"
    THEN ScanList(factions.items, 1, [our |-> <<>>, opp |-> <<>>])
    ELSE ScanDict(factions.items, 1, [our |-> <<>>, opp |-> <<>>])

\* Line 323: war.get("end", 1) == 0
IsActiveWar(war) == (IF war.has_end THEN war.end ELSE 1) = 0

\* Lines 356-367 (last_updated, a wall-clock stamp, is not modelled)
Snapshot(war, our, opp) ==
    [war_id |-> str(war.id),
     opponent_id |-> opp.id,
     opponent_name |-> opp.name,
     start_time |-> war.start,
     our_score |-> our.score,
     opponent_score |-> opp.score,
     our_chain |-> our.chain,
     opponent_chain |-> opp.chain,
     target_score |-> war.target]

\* Lines 320-370: the first war entry with end == 0 that has an opponent
\* decides.  "raise" is the AttributeError of our_faction_data.get on None
\* (line 361), raised before current_war_data is assigned.
RECURSIVE ScanWars(_, _)
ScanWars(wars, i) ==
    IF i > Len(wars) THEN [outcome |-> "none"]
    ELSE IF ~IsActiveWar(wars[i]) THEN ScanWars(wars, i + 1)
    ELSE LET sc == ScanFactions(wars[i].factions)
         IN  IF sc.opp = <<>> THEN ScanWars(wars, i + 1)
             ELSE IF sc.our = <<>> THEN [outcome |-> "raise"]
             ELSE [outcome |-> "war",
                   snapshot |-> Snapshot(wars[i], sc.our[1], sc.opp[1]),
                   opponent_id |-> sc.opp[1].id,
                   war_id |-> str(wars[i].id),
                   war |-> wars[i]]

\* Lines 308-378, from the arrival of the response of get_json on.
\* resp is [kind |-> "raise"] (get_json raised), [kind |-> "error"] (a body
\* without "rankedwars") or [kind |-> "wars", rankedwars |-> <<entry, ...>>].
\* The result carries the new value of current_war_data.
get_opponent_faction(resp, cwd) ==
    IF resp.kind = "raise" THEN [outcome |-> "raise", cwd |-> cwd]
    ELSE LET r == IF resp.kind = "wars" THEN ScanWars(resp.rankedwars, 1)
                  ELSE [outcome |-> "none"]
         IN  CASE r.outcome = "war" -> r @@ [cwd |-> r.snapshot]
               [] r.outcome = "raise" -> [outcome |-> "raise", cwd |-> cwd]
               [] OTHER -> [outcome |-> "none", cwd |-> EmptyDict]

\* Line 1643 of fetch_war_leaderboard_data: war.get("end", 0) > 0
IsCompletedWar(war) == (IF war.has_end THEN war.end ELSE 0) > 0

FACTION_NAME == "Target Faction"

\* Lines 936-976 of show_war_history: the two sides of the displayed war
show_war_history(war) ==
    LET sc == ScanFactions(war.factions)
        our_data == IF sc.our = <<>> THEN Faction(FACTION_ID, FACTION_NAME, 0, 0)
                    ELSE sc.our[1]
    IN  IF sc.opp = <<>> THEN [outcome |-> "error"]
        ELSE [outcome |-> "shown", our |-> our_data, opp |-> sc.opp[1]]

\* ------------------------------------------------------------------------
\* State
\* ------------------------------------------------------------------------
VARIABLES
    upstream,           \* the game server: [cur, last, our, opp], see below
    current_war_data,   \* line 54
    previous_war_id,    \* line 51
    claimed_targets,    \* line 50: member id -> claiming user id
    war_history,        \* line 56
    attack_logs,        \* line 57: war id -> [attacks, start_time, faction_id]
    ct,                 \* the check_targets coroutine: position and locals
    ws,                 \* the check_war_status coroutine: position and locals
    event,              \* what the last step was: [op, arg, war, result, tag]
    payload,            \* a rankedwars war entry handed to the normalizer
    out,                \* what the normalizer made of it
    user_preferences,   \* line 55: user id -> preferences
    clock,              \* datetime.now().timestamp()
    notifier,           \* the notify_users coroutine of each caller
    inbox,              \* user id -> when the user last received a notification
    sw                  \* the show_war_status coroutine: position

vars == <<upstream, current_war_data, previous_war_id, claimed_targets,
          war_history, attack_logs, ct, ws, event, payload, out,
          user_preferences, clock, notifier, inbox, sw>>

\* the notifications
dispatch == <<user_preferences, clock, notifier, inbox>>

\* event of a step that is neither a command nor the arrival of a poll
NoEvent == [op |-> "none", arg |-> 0, war |-> None, result |-> "none", tag |-> "none"]

\* event of the arrival of a rankedwars response in handler op: the
\* response's tag and what get_opponent_faction made of it
PollEvent(op, resp, r) ==
    [op |-> op, arg |-> 0, war |-> IF r.outcome = "war" THEN r.war_id ELSE None,
     result |-> r.outcome, tag |-> resp.tag]

\* ------------------------------------------------------------------------
\* The game server.  Wars are numbered 1, 2, ...; cur is the ongoing war
\* (0: none), last the newest war ever started, our/opp the scores of the
\* ongoing war.  War w is fought against faction FACTION_ID + w.
\* ------------------------------------------------------------------------
ScoreValues == {0, 600}
OppScore == 100

OppId(w) == FACTION_ID + w
StartTime(w) == 100 * w
EndTime(w) == 100 * w + 50
Winner(w) == IF w % 2 = 1 THEN FACTION_ID ELSE OppId(w)

OurFaction(w, u) == Faction(FACTION_ID, "Ours", IF w = u.cur THEN u.our ELSE 600, 0)
OppFaction(w, u) == Faction(OppId(w), "Opp" \o str(w), OppScore, 0)

Variants == {"list", "dict", "swapped", "no_end", "only_ours", "only_opp", "three"}

\* the factions of war w as the server reports them
FactionsOf(w, u, variant) ==
    CASE variant = "dict" -> AsDict(<<OurFaction(w, u), OppFaction(w, u)>>)
      [] variant = "swapped" -> AsList(<<OppFaction(w, u), OurFaction(w, u)>>)
      [] variant = "only_ours" -> AsList(<<OurFaction(w, u)>>)
      [] variant = "only_opp" -> AsList(<<OppFaction(w, u)>>)
      [] variant = "three" ->
            AsList(<<OurFaction(w, u), OppFaction(w, u), Faction(FACTION_ID + 90, "Third", 0, 0)>>)
      [] OTHER -> AsList(<<OurFaction(w, u), OppFaction(w, u)>>)

\* The entry of war w.  Only the entry of the ongoing war varies in shape.
Entry(w, u, variant) ==
    [id |-> w,
     has_end |-> ~(w = u.cur /\ variant = "no_end"),
     end |-> IF w = u.cur THEN 0 ELSE EndTime(w),
     start |-> StartTime(w),
     target |-> DEFAULT_TARGET,
     factions |-> FactionsOf(w, u, IF w = u.cur THEN variant ELSE "list")]

\* newest war first
WarList(u, variant) == [i \in 1..u.last |-> Entry(u.last + 1 - i, u, variant)]

\* what a rankedwars request can come back with
Responses(u) ==
    {[kind |-> "raise", tag |-> "raise"], [kind |-> "error", tag |-> "error"]}
    \cup {[kind |-> "wars", tag |-> v, rankedwars |-> WarList(u, v)] :
             v \in IF u.cur = 0 THEN {"list"} ELSE Variants}

StartWar ==
    /\ upstream.last < MaxWars
    /\ upstream' = [cur |-> upstream.last + 1, last |-> upstream.last + 1, our |-> 0]
    /\ event' = NoEvent
    /\ UNCHANGED <<dispatch, sw, current_war_data, previous_war_id, claimed_targets, war_history,
                   attack_logs, ct, ws, payload, out>>

EndWar ==
    /\ upstream.cur /= 0
    /\ upstream' = [upstream EXCEPT !.cur = 0, !.our = 0]
    /\ event' = NoEvent
    /\ UNCHANGED <<dispatch, sw, current_war_data, previous_war_id, claimed_targets, war_history,
                   attack_logs, ct, ws, payload, out>>

Score ==
    /\ upstream.cur /= 0
    /\ \E v \in ScoreValues \ {upstream.our} : upstream' = [upstream EXCEPT !.our = v]
    /\ event' = NoEvent
    /\ UNCHANGED <<dispatch, sw, current_war_data, previous_war_id, claimed_targets, war_history,
                   attack_logs, ct, ws, payload, out>>

\* ------------------------------------------------------------------------
\* announce_war_result (lines 3153-3240)
\* ------------------------------------------------------------------------
\* data["rankedwars"][str(war_id)] of the v1 API: absent ("missing"), without
\* the "war" key ("nodetail"), or complete; or get_json raises.
AnnounceKinds == {"raise", "missing", "nodetail", "full"}

\* Lines 3185-3205 (the rewards are not modelled)
HistoryEntry(war_id, u) ==
    LET w == int(war_id)
    IN  [war_id |-> war_id,
         start_time |-> StartTime(w),
         end_time |-> EndTime(w),
         faction_data |-> (str(FACTION_ID) :> [name |-> "Ours", final_score |-> OurFaction(w, u).score])
                          @@ (str(OppId(w)) :> [name |-> "Opp" \o str(w), final_score |-> OppScore]),
         winner |-> str(Winner(w))]

\* ------------------------------------------------------------------------
\* check_targets (lines 2908-3015)
\* ------------------------------------------------------------------------
\* members.items() of get_opponent_members: the keys are strings
MemberKeys == [i \in 1..MaxMembers |-> str(i)]

\* Lines 2939-2942: the next member at or after position i that is not in
\* claimed_targets; 0 when the loop has run out.
NextUnclaimed(i, claimed) ==
    LET S == {j \in i..Len(MemberKeys) : int(MemberKeys[j]) \notin DOMAIN claimed}
    IN  IF S = {} THEN 0 ELSE CHOOSE j \in S : \A k \in S : j <= k

CtIdle(c) == [c EXCEPT !.pc = "idle", !.idx = 0, !.user = 0, !.war_id = None]

\* the loop moves on from position i
CtLoop(c, i, claimed) ==
    LET j == NextUnclaimed(i, claimed)
    IN  IF j = 0 THEN CtIdle(c) ELSE [c EXCEPT !.pc = "userinfo", !.idx = j, !.user = 0]

\* The timer fires; the task runs up to get_json in get_opponent_faction.
CT_Tick ==
    /\ ct.pc = "idle"
    /\ ct' = [ct EXCEPT !.pc = "fetch"]
    /\ event' = NoEvent
    /\ UNCHANGED <<dispatch, sw, upstream, current_war_data, previous_war_id, claimed_targets,
                   war_history, attack_logs, ws, payload, out>>

\* Lines 2912-2926: the response arrives.  channel is whether
\* bot.get_channel found the channel.
CT_Poll ==
    /\ ct.pc = "fetch"
    /\ \E resp \in Responses(upstream), channel \in BOOLEAN :
         LET r == get_opponent_faction(resp, current_war_data)
             c == ct
         IN  /\ current_war_data' = r.cwd
             /\ event' = PollEvent("check_targets", resp, r)
             /\ IF r.outcome /= "war"
                THEN /\ ct' = CtIdle(c)
                     /\ UNCHANGED <<previous_war_id, claimed_targets>>
                ELSE IF r.war_id /= previous_war_id /\ previous_war_id /= None
                THEN /\ claimed_targets' = EmptyDict
                     /\ IF channel
                        THEN /\ ct' = [c EXCEPT !.pc = "announce_fetch", !.war_id = r.war_id,
                                                !.reported = r.war_id]
                             /\ UNCHANGED previous_war_id
                        ELSE /\ previous_war_id' = r.war_id
                             /\ ct' = [c EXCEPT !.pc = "members", !.war_id = r.war_id,
                                                !.reported = r.war_id]
                ELSE /\ previous_war_id' = r.war_id
                     /\ ct' = [c EXCEPT !.pc = "members", !.war_id = r.war_id,
                                        !.reported = r.war_id]
                     /\ UNCHANGED claimed_targets
    /\ UNCHANGED <<dispatch, sw, upstream, war_history, attack_logs, ws, payload, out>>

\* Lines 3156-3221: the v1 response arrives.  saved is whether
\* save_war_history succeeded.
CT_AnnounceFetch ==
    /\ ct.pc = "announce_fetch"
    /\ \E kind \in AnnounceKinds, saved \in BOOLEAN :
         CASE kind = "raise" ->
                /\ ct' = CtIdle(ct)
                /\ UNCHANGED <<previous_war_id, war_history>>
           [] kind = "missing" ->
                /\ previous_war_id' = ct.war_id
                /\ ct' = [ct EXCEPT !.pc = "members"]
                /\ UNCHANGED war_history
           [] kind = "nodetail" ->
                /\ ct' = [ct EXCEPT !.pc = "announce_nodetail"]
                /\ UNCHANGED <<previous_war_id, war_history>>
           [] OTHER ->
                /\ Len(war_history) < MaxHistory
                /\ war_history' = Append(war_history, HistoryEntry(previous_war_id, upstream))
                /\ ct' = [ct EXCEPT !.pc = IF saved THEN "announce_send" ELSE "announce_fallback"]
                /\ UNCHANGED previous_war_id
    /\ event' = NoEvent
    /\ UNCHANGED <<dispatch, sw, upstream, current_war_data, claimed_targets, attack_logs, ws, payload, out>>

\* Lines 3166-3168 and 3240: a channel.send after which the function
\* returns; if it raises, the exception leaves check_targets at line 3010.
CT_AnnounceLastSend ==
    /\ ct.pc \in {"announce_nodetail", "announce_fallback"}
    /\ \E sent \in BOOLEAN :
         IF sent
         THEN /\ previous_war_id' = ct.war_id
              /\ ct' = [ct EXCEPT !.pc = "members"]
         ELSE /\ ct' = CtIdle(ct)
              /\ UNCHANGED previous_war_id
    /\ event' = NoEvent
    /\ UNCHANGED <<dispatch, sw, upstream, current_war_data, claimed_targets, war_history, attack_logs,
                   ws, payload, out>>

\* Lines 3224-3237: the report is sent and the users are notified; a failure
\* is caught at line 3236.
CT_AnnounceSend ==
    /\ ct.pc = "announce_send"
    /\ \E sent \in BOOLEAN :
         IF sent
         THEN /\ previous_war_id' = ct.war_id
              /\ ct' = [ct EXCEPT !.pc = "members"]
         ELSE /\ ct' = [ct EXCEPT !.pc = "announce_fallback"]
              /\ UNCHANGED previous_war_id
    /\ event' = NoEvent
    /\ UNCHANGED <<dispatch, sw, upstream, current_war_data, claimed_targets, war_history, attack_logs,
                   ws, payload, out>>

\* Lines 2931-2942: the member list arrives (or the request raises, or the
\* list is empty, or the channel is not found) and the loop starts.
CT_Members ==
    /\ ct.pc = "members"
    /\ \E got \in {"raise", "empty", "members"}, channel \in BOOLEAN :
         ct' = IF got = "members" /\ channel THEN CtLoop(ct, 1, claimed_targets)
               ELSE CtIdle(ct)
    /\ event' = NoEvent
    /\ UNCHANGED <<dispatch, sw, upstream, current_war_data, previous_war_id, claimed_targets,
                   war_history, attack_logs, ws, payload, out>>

\* Lines 2945-2990: the profile of member idx arrives; an attackable member
\* is posted (channel.send is awaited next), any other is passed over.
CT_UserInfo ==
    /\ ct.pc = "userinfo"
    /\ \E got \in {"raise", "attackable", "other"} :
         ct' = CASE got = "raise" -> CtIdle(ct)
                 [] got = "attackable" -> [ct EXCEPT !.pc = "post"]
                 [] OTHER -> CtLoop(ct, ct.idx + 1, claimed_targets)
    /\ event' = NoEvent
    /\ UNCHANGED <<dispatch, sw, upstream, current_war_data, previous_war_id, claimed_targets,
                   war_history, attack_logs, ws, payload, out>>

\* Lines 2990-3004: the target message is posted, the reaction added and
\* the subscribers notified; the task then waits for a reaction.
CT_Post ==
    /\ ct.pc = "post"
    /\ \E sent \in BOOLEAN :
         ct' = IF sent THEN [ct EXCEPT !.pc = "wait"] ELSE CtIdle(ct)
    /\ event' = NoEvent
    /\ UNCHANGED <<dispatch, sw, upstream, current_war_data, previous_war_id, claimed_targets,
                   war_history, attack_logs, ws, payload, out>>

\* Lines 3004-3006: a user reacts within the 60 seconds; msg.edit is awaited.
CT_Reaction ==
    /\ ct.pc = "wait"
    /\ \E u \in Users : ct' = [ct EXCEPT !.pc = "edit", !.user = u]
    /\ event' = NoEvent
    /\ UNCHANGED <<dispatch, sw, upstream, current_war_data, previous_war_id, claimed_targets,
                   war_history, attack_logs, ws, payload, out>>

\* Lines 3008-3009: asyncio.TimeoutError, the loop goes on.
CT_Timeout ==
    /\ ct.pc = "wait"
    /\ ct' = CtLoop(ct, ct.idx + 1, claimed_targets)
    /\ event' = NoEvent
    /\ UNCHANGED <<dispatch, sw, upstream, current_war_data, previous_war_id, claimed_targets,
                   war_history, attack_logs, ws, payload, out>>

\* Line 3007, after msg.edit returned (or raised)
CT_Edit ==
    /\ ct.pc = "edit"
    /\ \E edited \in BOOLEAN :
         IF edited
         THEN LET m == int(MemberKeys[ct.idx])
                  claimed == (m :> ct.user) @@ claimed_targets
              IN  /\ claimed_targets' = claimed
                  /\ ct' = CtLoop(ct, ct.idx + 1, claimed)
         ELSE /\ ct' = CtIdle(ct)
              /\ UNCHANGED claimed_targets
    /\ event' = NoEvent
    /\ UNCHANGED <<dispatch, sw, upstream, current_war_data, previous_war_id, war_history, attack_logs,
                   ws, payload, out>>

\* ------------------------------------------------------------------------
\* check_war_status (lines 3017-3123)
\* ------------------------------------------------------------------------
\* Lines 3036-3049: the two scores read from the war entry
RECURSIVE StatusScanList(_, _, _, _)
StatusScanList(items, i, opponent_id, acc) ==
    IF i > Len(items) THEN acc
    ELSE IF items[i].id = FACTION_ID
         THEN StatusScanList(items, i + 1, opponent_id, [acc EXCEPT !.our = <<items[i]>>])
         ELSE IF items[i].id = opponent_id
         THEN StatusScanList(items, i + 1, opponent_id, [acc EXCEPT !.opp = <<items[i]>>])
         ELSE StatusScanList(items, i + 1, opponent_id, acc)

\* factions.get(key, {}) on the items of a dict
DictGet(items, key) ==
    LET S == {i \in 1..Len(items) : items[i].key = key}
    IN  IF S = {} THEN <<>> ELSE <<items[CHOOSE i \in S : TRUE].val>>

StatusFactions(factions, opponent_id) ==
    IF factions.shape = "list"
    THEN StatusScanList(factions.items, 1, opponent_id, [our |-> <<>>, opp |-> <<>>])
    ELSE [our |-> DictGet(factions.items, str(FACTION_ID)),
          opp |-> DictGet(factions.items, str(opponent_id))]

StatusScores(factions, opponent_id) ==
    LET sf == StatusFactions(factions, opponent_id)
    IN  [our_score |-> IF sf.our = <<>> THEN 0 ELSE sf.our[1].score,
         opponent_score |-> IF sf.opp = <<>> THEN 0 ELSE sf.opp[1].score]

Abs(x) == IF x < 0 THEN -x ELSE x

\* Lines 3057-3059 and 3084 (the clock-dependent war_ending_soon is left out)
ShouldNotify(old_our, old_opp, our, opp) ==
    LET score_diff == (our - opp) - (old_our - old_opp)
        lead_change == (old_our > old_opp /\ our <= opp) \/ (old_our <= old_opp /\ our > opp)
    IN  Abs(score_diff) >= 500 \/ lead_change

WS_Tick ==
    /\ ws.pc = "idle"
    /\ ws' = [ws EXCEPT !.pc = "fetch"]
    /\ event' = NoEvent
    /\ UNCHANGED <<dispatch, sw, upstream, current_war_data, previous_war_id, claimed_targets,
                   war_history, attack_logs, ct, payload, out>>

\* Lines 3021-3121: the response arrives; nothing is awaited between the
\* assignment of current_war_data in get_opponent_faction and line 3054.
WS_Poll ==
    /\ ws.pc = "fetch"
    /\ \E resp \in Responses(upstream) :
         LET r == get_opponent_faction(resp, current_war_data)
         IN  IF r.outcome /= "war"
             THEN /\ current_war_data' = r.cwd
                  /\ event' = PollEvent("check_war_status", resp, r)
                  /\ ws' = [ws EXCEPT !.pc = "idle"]
             ELSE LET old_our == Get(r.cwd, "last_our_score", 0)
                      old_opp == Get(r.cwd, "last_opponent_score", 0)
                      sc == StatusScores(r.war.factions, r.opponent_id)
                      notify == ShouldNotify(old_our, old_opp, sc.our_score, sc.opponent_score)
                  IN  /\ current_war_data' =
                            ("last_our_score" :> sc.our_score)
                            @@ ("last_opponent_score" :> sc.opponent_score) @@ r.cwd
                      /\ event' = PollEvent("check_war_status", resp, r)
                      /\ ws' = [ws EXCEPT !.pc = IF notify THEN "notify" ELSE "idle"]
    /\ UNCHANGED <<dispatch, sw, upstream, previous_war_id, claimed_targets, war_history, attack_logs,
                   ct, payload, out>>

\* Line 3121: notify_users returns
WS_Notify ==
    /\ ws.pc = "notify"
    /\ ws' = [ws EXCEPT !.pc = "idle"]
    /\ event' = NoEvent
    /\ UNCHANGED <<dispatch, sw, upstream, current_war_data, previous_war_id, claimed_targets,
                   war_history, attack_logs, ct, payload, out>>

\* ------------------------------------------------------------------------
\* Commands.  event keeps what the last command was given and what it
\* answered.
\* ------------------------------------------------------------------------


\* claim_target that keeps the claim a member already has
claim_target_keep(m, u) ==
    /\ claimed_targets' = claimed_targets @@ (m :> u)
    /\ event' = [op |-> "claim", arg |-> <<m, u>>, war |-> None, result |-> "ok", tag |-> "none"]
    /\ UNCHANGED <<dispatch, sw, upstream, current_war_data, previous_war_id, war_history, attack_logs,
                   ct, ws, payload, out>>

\* Lines 748-754
claim_target(m, u) ==
    /\ claimed_targets' = (m :> u) @@ claimed_targets
    /\ event' = [op |-> "claim", arg |-> <<m, u>>, war |-> None, result |-> "ok", tag |-> "none"]
    /\ UNCHANGED <<dispatch, sw, upstream, current_war_data, previous_war_id, war_history, attack_logs,
                   ct, ws, payload, out>>

\* unclaim_target that drops every claim, not only the member's
unclaim_target_all(m) ==
    /\ IF m \in DOMAIN claimed_targets
       THEN /\ claimed_targets' = EmptyDict
            /\ event' = [op |-> "unclaim", arg |-> m, war |-> None, result |-> "ok", tag |-> "none"]
       ELSE /\ UNCHANGED claimed_targets
            /\ event' = [op |-> "unclaim", arg |-> m, war |-> None, result |-> "not_claimed", tag |-> "none"]
    /\ UNCHANGED <<dispatch, sw, upstream, current_war_data, previous_war_id, war_history, attack_logs,
                   ct, ws, payload, out>>

\* Lines 756-765
unclaim_target(m) ==
    /\ IF m \in DOMAIN claimed_targets
       THEN /\ claimed_targets' = [k \in DOMAIN claimed_targets \ {m} |-> claimed_targets[k]]
            /\ event' = [op |-> "unclaim", arg |-> m, war |-> None, result |-> "ok", tag |-> "none"]
       ELSE /\ UNCHANGED claimed_targets
            /\ event' = [op |-> "unclaim", arg |-> m, war |-> None, result |-> "not_claimed", tag |-> "none"]
    /\ UNCHANGED <<dispatch, sw, upstream, current_war_data, previous_war_id, war_history, attack_logs,
                   ct, ws, payload, out>>

\* what the record command is given
Attackers == {21}
Defenders == {1}
TimeValues == {5}

\* Lines 179-184
AttackRecord(attacker_id, defender_id, points, timestamp) ==
    [attacker_id |-> attacker_id, defender_id |-> defender_id,
     points |-> points, timestamp |-> timestamp]

\* record_attack with attacks.insert(0, ...) in place of the append
record_attack_front(logs, cwd, attacker_id, defender_id, points, timestamp) ==
    LET war_id == cwd["war_id"]
        entry == IF war_id \in DOMAIN logs THEN logs[war_id]
                 ELSE [attacks |-> <<>>,
                       start_time |-> Get(cwd, "start_time", timestamp),
                       faction_id |-> FACTION_ID]
        added == [entry EXCEPT !.attacks =
                      <<AttackRecord(attacker_id, defender_id, points, timestamp)>> \o @]
    IN  (war_id :> added) @@ logs

\* record_attack without the test of line 171: the entry is made anew
record_attack_anew(logs, cwd, attacker_id, defender_id, points, timestamp) ==
    (cwd["war_id"] :>
        [attacks |-> <<AttackRecord(attacker_id, defender_id, points, timestamp)>>,
         start_time |-> Get(cwd, "start_time", timestamp),
         faction_id |-> FACTION_ID]) @@ logs

\* Lines 158-188: the ledger after record_attack, which the caller has
\* checked to run with a war id in current_war_data.
record_attack(logs, cwd, attacker_id, defender_id, points, timestamp) ==
    LET war_id == cwd["war_id"]
        entry == IF war_id \in DOMAIN logs THEN logs[war_id]
                 ELSE [attacks |-> <<>>,
                       start_time |-> Get(cwd, "start_time", timestamp),
                       faction_id |-> FACTION_ID]
        added == [entry EXCEPT !.attacks =
                      Append(@, AttackRecord(attacker_id, defender_id, points, timestamp))]
    IN  (war_id :> added) @@ logs

\* the number of records in the entries of the wars ws
RECURSIVE TotalRecords(_, _)
TotalRecords(logs, wars) ==
    IF wars = {} THEN 0
    ELSE LET w == CHOOSE x \in wars : TRUE
         IN  Len(logs[w].attacks) + TotalRecords(logs, wars \ {w})

\* Lines 2624-2646
record_attack_command(attacker_id, defender_id, points, timestamp) ==
    /\ IF Get(current_war_data, "war_id", None) = None
       THEN /\ UNCHANGED attack_logs
            /\ event' = [op |-> "record",
                       arg |-> <<attacker_id, defender_id, points, timestamp>>,
                       war |-> None, result |-> "no_war", tag |-> "none"]
       ELSE /\ TotalRecords(attack_logs, DOMAIN attack_logs) < MaxAttacks
            /\ attack_logs' = record_attack(attack_logs, current_war_data,
                                            attacker_id, defender_id, points, timestamp)
            /\ event' = [op |-> "record",
                       arg |-> <<attacker_id, defender_id, points, timestamp>>,
                       war |-> current_war_data["war_id"], result |-> "ok", tag |-> "none"]
    /\ UNCHANGED <<dispatch, sw, upstream, current_war_data, previous_war_id, claimed_targets,
                   war_history, ct, ws, payload, out>>

\* war_attacks.pop(i) for the 0-based position i = k - 1
Pop(attacks, k) == [i \in 1..(Len(attacks) - 1) |-> IF i < k THEN attacks[i] ELSE attacks[i + 1]]

\* delete_attack_record with war_attacks.pop(attack_id - 1) in place of the
\* loop of lines 2668-2669: Python counts a position below 0 from the end
delete_attack_record_pyindex(k, war) ==
    LET current_war_id == Get(current_war_data, "war_id", None)
        target_war_id == IF war /= None THEN war ELSE current_war_id
        result(r) == [op |-> "delete", arg |-> k, war |-> target_war_id, result |-> r,
                      tag |-> "none"]
    IN  /\ IF target_war_id = None
           THEN UNCHANGED attack_logs /\ event' = result("no_war")
           ELSE IF target_war_id \notin DOMAIN attack_logs
           THEN UNCHANGED attack_logs /\ event' = result("no_data")
           ELSE LET n == Len(attack_logs[target_war_id].attacks)
                    pos == IF k - 1 < 0 THEN n + k ELSE k
                IN  IF pos \in 1..n
                    THEN /\ attack_logs' =
                                [attack_logs EXCEPT ![target_war_id].attacks = Pop(@, pos)]
                         /\ event' = result("deleted")
                    ELSE UNCHANGED attack_logs /\ event' = result("not_found")
        /\ UNCHANGED <<dispatch, sw, upstream, current_war_data, previous_war_id, claimed_targets,
                       war_history, ct, ws, payload, out>>

\* Lines 2648-2708.  war is the war_id argument, None when it is not given.
delete_attack_record(k, war) ==
    LET current_war_id == Get(current_war_data, "war_id", None)
        target_war_id == IF war /= None THEN war ELSE current_war_id
    IN  /\ IF target_war_id = None
           THEN /\ UNCHANGED attack_logs
                /\ event' = [op |-> "delete", arg |-> k, war |-> target_war_id,
                           result |-> "no_war", tag |-> "none"]
           ELSE IF target_war_id \notin DOMAIN attack_logs
           THEN /\ UNCHANGED attack_logs
                /\ event' = [op |-> "delete", arg |-> k, war |-> target_war_id,
                           result |-> "no_data", tag |-> "none"]
           ELSE IF \E i \in 1..Len(attack_logs[target_war_id].attacks) : i = k
           THEN /\ attack_logs' = [attack_logs EXCEPT ![target_war_id].attacks = Pop(@, k)]
                /\ event' = [op |-> "delete", arg |-> k, war |-> target_war_id,
                           result |-> "deleted", tag |-> "none"]
           ELSE /\ UNCHANGED attack_logs
                /\ event' = [op |-> "delete", arg |-> k, war |-> target_war_id,
                           result |-> "not_found", tag |-> "none"]
        /\ UNCHANGED <<dispatch, sw, upstream, current_war_data, previous_war_id, claimed_targets,
                       war_history, ct, ws, payload, out>>

\* ------------------------------------------------------------------------
\* Specifications
\* ------------------------------------------------------------------------
WarIds == {str(w) : w \in 1..MaxWars}

NoPayload == [id |-> 0]
NoOut == [outcome |-> "none"]

\* the callers of notify_users: lines 2998 and 3121
Callers == {"check_targets", "check_war_status"}

\* line 55 at a time 300 seconds past the epoch, nothing being sent
DispatchInit ==
    /\ user_preferences = EmptyDict
    /\ clock = 300
    /\ notifier = [c \in Callers |-> [pc |-> "idle", idx |-> 0, current_time |-> 0]]
    /\ inbox = EmptyDict

\* the process after start-up (lines 50-57), no war on the server
ProgramInit ==
    /\ upstream = [cur |-> 0, last |-> 0, our |-> 0]
    /\ current_war_data = EmptyDict
    /\ previous_war_id = None
    /\ claimed_targets = EmptyDict
    /\ war_history = <<>>
    /\ attack_logs = EmptyDict
    /\ ct = [pc |-> "idle", war_id |-> None, idx |-> 0, user |-> 0, reported |-> None]
    /\ ws = [pc |-> "idle"]
    /\ event = NoEvent
    /\ DispatchInit
    /\ sw = [pc |-> "idle"]

Init ==
    /\ ProgramInit
    /\ payload = NoPayload
    /\ out = NoOut

Server == StartWar \/ EndWar \/ Score

CheckTargets ==
    \/ CT_Tick \/ CT_Poll \/ CT_AnnounceFetch \/ CT_AnnounceSend \/ CT_AnnounceLastSend
    \/ CT_Members \/ CT_UserInfo \/ CT_Post \/ CT_Reaction \/ CT_Timeout \/ CT_Edit

CheckWarStatus == WS_Tick \/ WS_Poll \/ WS_Notify

Claim == \E m \in Members, u \in Users : claim_target(m, u)

Unclaim == \E m \in Members : unclaim_target(m)

Record ==
    \E a \in Attackers, d \in Defenders, p \in PointValues, t \in TimeValues :
        record_attack_command(a, d, p, t)

Delete == \E k \in -1..(MaxAttacks + 1), war \in WarIds \cup {None} : delete_attack_record(k, war)

\* the poller and the claim registry
Next == StartWar \/ EndWar \/ CheckTargets \/ Claim \/ Unclaim

Spec == Init /\ [][Next]_vars

\* The attack ledger under the war-status poller.  The scores stay as they
\* are at the start of a war, with which check_war_status never notifies.
LedgerNext == StartWar \/ EndWar \/ WS_Tick \/ WS_Poll \/ Record \/ Delete

LedgerSpec == Init /\ [][LedgerNext]_vars

\* ------------------------------------------------------------------------
\* The normalizer on its own: one war entry, drawn from every choice of one
\* to three factions in either shape, is handed to get_opponent_faction,
\* to the history view and to the war-status score reader.
\* ------------------------------------------------------------------------
FactionPool ==
    {Faction(FACTION_ID, "Ours", sc, 3) : sc \in ScoreValues}
    \cup {Faction(FACTION_ID + 1, "Opp1", sc, 4) : sc \in ScoreValues}
    \cup {Faction(FACTION_ID + 2, "Opp2", 50, 5)}

FactionLists ==
    {fs \in UNION {[1..n -> FactionPool] : n \in 1..3} :
        \A i, j \in DOMAIN fs : i /= j => fs[i].id /= fs[j].id}

\* the "end" key: zero, nonzero or absent
EndForms == {[has_end |-> TRUE, end |-> 0], [has_end |-> TRUE, end |-> 150],
             [has_end |-> FALSE, end |-> 0]}

Payloads ==
    {[id |-> 1, has_end |-> ef.has_end, end |-> ef.end, start |-> 100, target |-> 5000,
      factions |-> IF shape = "list" THEN AsList(fs) ELSE AsDict(fs)] :
        ef \in EndForms, shape \in {"list", "dict"}, fs \in FactionLists}

NormInit ==
    /\ ProgramInit
    /\ payload \in Payloads
    /\ out = NoOut

\* get_opponent_faction on a response that carries the entry
Normalize ==
    /\ out.outcome = "none"
    /\ LET r == get_opponent_faction([kind |-> "wars", rankedwars |-> <<payload>>],
                                     current_war_data)
       IN  /\ current_war_data' = r.cwd
           /\ out' = IF r.outcome = "war"
                     THEN [outcome |-> "war", snapshot |-> r.snapshot,
                           scores |-> StatusScores(r.war.factions, r.opponent_id)]
                     ELSE [outcome |-> r.outcome]
    /\ UNCHANGED <<dispatch, sw, upstream, previous_war_id, claimed_targets, war_history, attack_logs,
                   ct, ws, event, payload>>

\* show_war_history on the entry
View ==
    /\ out.outcome = "none"
    /\ out' = show_war_history(payload)
    /\ UNCHANGED <<dispatch, sw, upstream, current_war_data, previous_war_id, claimed_targets,
                   war_history, attack_logs, ct, ws, event, payload>>

NormNext == Normalize \/ View

NormSpec == NormInit /\ [][NormNext]_vars

\* the factions of an entry, whatever its shape
FactionsIn(war) ==
    IF war.factions.shape = "list" THEN war.factions.items
    ELSE [i \in DOMAIN war.factions.items |-> war.factions.items[i].val]

\* exactly two factions, exactly one of them the tracked one
TwoSided(war) ==
    LET fs == FactionsIn(war)
    IN  Len(fs) = 2 /\ Cardinality({i \in DOMAIN fs : fs[i].id = FACTION_ID}) = 1

\* C5: a snapshot or a displayed war record is produced only from an entry
\* with exactly two factions of which exactly one is the tracked faction.
C5_OnlyTwoSidedNormalizes == out.outcome \in {"war", "shown"} => TwoSided(payload)

\* C6: an entry is ONGOING iff its end is zero or absent, ENDED otherwise;
\* the poller takes exactly the ONGOING entries as the current war and the
\* leaderboard lookup exactly the ENDED ones as completed.
C6_OngoingOrEnded ==
    LET ongoing == ~payload.has_end \/ payload.end = 0
    IN  /\ IsActiveWar(payload) <=> ongoing
        /\ IsCompletedWar(payload) <=> ~ongoing

\* the entry in the other shape
Reshaped(war) ==
    [war EXCEPT !.factions = IF war.factions.shape = "list" THEN AsDict(FactionsIn(war))
                             ELSE AsList(FactionsIn(war))]

\* C7: a well-formed two-faction ongoing entry yields the same snapshot
\* and the same war-status scores as a list and as a mapping, with the
\* tracked faction on our side and the other one as opponent.
C7_ShapeIndependent ==
    (out.outcome = "war" /\ TwoSided(payload)) =>
        LET other == ScanWars(<<Reshaped(payload)>>, 1)
            fs == FactionsIn(payload)
            opp == CHOOSE i \in DOMAIN fs : fs[i].id /= FACTION_ID
            our == CHOOSE i \in DOMAIN fs : fs[i].id = FACTION_ID
        IN  /\ other.outcome = "war"
            /\ other.snapshot = out.snapshot
            /\ StatusScores(Reshaped(payload).factions, other.opponent_id) = out.scores
            /\ out.snapshot.opponent_id = fs[opp].id
            /\ out.snapshot.opponent_name = fs[opp].name
            /\ out.snapshot.our_score = fs[our].score
            /\ out.snapshot.opponent_score = fs[opp].score
            /\ out.snapshot.our_chain = fs[our].chain
            /\ out.snapshot.opponent_chain = fs[opp].chain
            /\ out.scores = [our_score |-> fs[our].score, opponent_score |-> fs[opp].score]

C7_Witness ==
    /\ out.outcome = "war" /\ TwoSided(payload)
    /\ payload.factions.shape = "dict"
    /\ FactionsIn(payload)[1].id /= FACTION_ID
    /\ out.snapshot.our_score = 600 /\ out.snapshot.opponent_score = 0

\* ------------------------------------------------------------------------
\* The attack ledger (LedgerSpec)
\* ------------------------------------------------------------------------
AttacksOf(logs, war_id) == IF war_id \in DOMAIN logs THEN logs[war_id].attacks ELSE <<>>

Stamp(entry) == <<entry.start_time, entry.faction_id>>

IsPrefix(s, t) == Len(s) <= Len(t) /\ \A i \in DOMAIN s : s[i] = t[i]

\* t is s without one of its elements
OneRemoved(s, t) ==
    \E k \in DOMAIN s :
        /\ Len(t) = Len(s) - 1
        /\ \A i \in DOMAIN t : t[i] = IF i < k THEN s[i] ELSE s[i + 1]

\* C8: record fails and leaves the ledger alone without a tracked war;
\* otherwise it appends exactly the given record to the entry of the
\* current war, creates that entry stamped with the snapshot's start_time
\* and the tracked faction id if there was none, and leaves the entries of
\* all other wars alone.
C8_Record ==
    [][event'.op = "record" =>
        IF Get(current_war_data, "war_id", None) = None
        THEN event'.result = "no_war" /\ attack_logs' = attack_logs
        ELSE LET w == current_war_data["war_id"]
                 a == event'.arg
             IN  /\ event'.result = "ok"
                 /\ DOMAIN attack_logs' = DOMAIN attack_logs \cup {w}
                 /\ attack_logs'[w].attacks =
                        Append(AttacksOf(attack_logs, w),
                               [attacker_id |-> a[1], defender_id |-> a[2],
                                points |-> a[3], timestamp |-> a[4]])
                 /\ Stamp(attack_logs'[w]) =
                        IF w \in DOMAIN attack_logs THEN Stamp(attack_logs[w])
                        ELSE <<current_war_data["start_time"], FACTION_ID>>
                 /\ \A v \in DOMAIN attack_logs \ {w} : attack_logs'[v] = attack_logs[v]
    ]_vars

\* a record was added to an entry that held one, and a war went untracked
C8_Witness ==
    /\ event.op = "record" /\ event.result = "ok"
    /\ Len(attack_logs[event.war].attacks) = 2
    /\ attack_logs[event.war].attacks[1].points /= attack_logs[event.war].attacks[2].points
    /\ DOMAIN attack_logs = {"1", "2"} /\ event.war = "2"

\* C9: no step drops a war's entry or changes its stamp; a step other than
\* a delete keeps every recorded attack in place (the old list is a prefix
\* of the new one) and a delete takes out one record, the rest in order.
C9_AppendOnly ==
    [][\A w \in DOMAIN attack_logs :
        /\ w \in DOMAIN attack_logs'
        /\ Stamp(attack_logs'[w]) = Stamp(attack_logs[w])
        /\ \/ IsPrefix(attack_logs[w].attacks, attack_logs'[w].attacks)
           \/ /\ event'.op = "delete"
              /\ OneRemoved(attack_logs[w].attacks, attack_logs'[w].attacks)
    ]_vars

\* the ledger holds records of two wars, the older war's made before the
\* transition, and the snapshot has been re-polled since
C9_Witness ==
    /\ DOMAIN attack_logs = {"1", "2"}
    /\ Len(attack_logs["1"].attacks) = 1 /\ Len(attack_logs["2"].attacks) = 1
    /\ Get(current_war_data, "war_id", None) = "2"
    /\ event.op = "check_war_status"

\* C10: delete(war, k) with 1 <= k <= n removes exactly the k-th of the n
\* records of that war, the later ones moving up by one; for any other k,
\* or a war without an entry, it reports not found and changes nothing.
C10_Delete ==
    [][event'.op = "delete" =>
        LET w == event'.war
            k == event'.arg
            old == AttacksOf(attack_logs, w)
        IN  IF w \in DOMAIN attack_logs /\ 1 <= k /\ k <= Len(old)
            THEN /\ event'.result = "deleted"
                 /\ DOMAIN attack_logs' = DOMAIN attack_logs
                 /\ Len(attack_logs'[w].attacks) = Len(old) - 1
                 /\ \A i \in 1..(Len(old) - 1) :
                        attack_logs'[w].attacks[i] = IF i < k THEN old[i] ELSE old[i + 1]
                 /\ Stamp(attack_logs'[w]) = Stamp(attack_logs[w])
                 /\ \A v \in DOMAIN attack_logs \ {w} : attack_logs'[v] = attack_logs[v]
            ELSE /\ event'.result \in {"not_found", "no_data", "no_war"}
                 /\ attack_logs' = attack_logs
    ]_vars

\* the first of two different records was deleted
C10_Witness ==
    /\ event.op = "delete" /\ event.result = "deleted" /\ event.arg = 1
    /\ Len(attack_logs[event.war].attacks) = 1
    /\ attack_logs[event.war].attacks[1].points = 3

\* ------------------------------------------------------------------------
\* The war-ended reaction (Spec)
\* ------------------------------------------------------------------------
HasEntry(history, war_id) == \E i \in DOMAIN history : history[i].war_id = war_id

\* a check_targets cycle receives a well-formed war list without an ongoing war
NoWarPolled == event'.op = "check_targets" /\ event'.tag = "list" /\ event'.result = "none"

\* C1: a poll that finds no ongoing war while a previous war id is held
\* clears the claim registry and records a history entry for that war in
\* the same cycle (the cycle ends with that step).
C1_WarEndedOnNoWar ==
    [][(NoWarPolled /\ previous_war_id /= None)
         => (claimed_targets' = EmptyDict /\ HasEntry(war_history', previous_war_id))]_vars

\* C2: war_history never holds two entries with the same war id.
C2_OneEntryPerWar ==
    \A i, j \in DOMAIN war_history :
        i /= j => war_history[i].war_id /= war_history[j].war_id

\* C3: a check_targets cycle that reports the war an earlier cycle already
\* reported leaves claimed_targets as it was.
C3_NoClearMidWar ==
    [][(event'.op = "check_targets" /\ event'.result = "war" /\ event'.war = ct.reported)
         => claimed_targets' = claimed_targets]_vars

\* responses of a failed poll: the fetch raised, an error body, a payload
\* with one faction only
FailedTags == {"raise", "error", "only_ours", "only_opp"}

\* C4: a failed poll cycle leaves current_war_data exactly as it was.
C4_FailedPollKeepsSnapshot ==
    [][(event'.op \in {"check_targets", "check_war_status"} /\ event'.tag \in FailedTags)
         => current_war_data' = current_war_data]_vars

\* ------------------------------------------------------------------------
\* calculate_attack_points (lines 1566-1612)
\*
\* A JSON value is [t, n, s, o]: a number n (in tenths: 35 is 3.5), null,
\* a text s, or an object o (a dict of such values without objects).  An
\* attack payload is a dict from keys to JSON values.
\* ------------------------------------------------------------------------
Num(n) == [t |-> "num", n |-> n, s |-> "", o |-> EmptyDict]
Null == [t |-> "null", n |-> 0, s |-> "", o |-> EmptyDict]
Text(s) == [t |-> "text", n |-> 0, s |-> s, o |-> EmptyDict]
Obj(o) == [t |-> "obj", n |-> 0, s |-> "", o |-> o]

\* Line 1606
successful_results == {"Mugged", "Hospitalized", "Attacked", "Stalemate", "Assist", "Success"}

\* Lines 1581-1585: the flat gain field; respect_gain shadows respect
FlatRespect(attack) ==
    IF "respect_gain" \in DOMAIN attack THEN attack["respect_gain"]
    ELSE IF "respect" \in DOMAIN attack THEN attack["respect"]
    ELSE Num(0)

\* Lines 1588-1591: does the result object carry a respect value
NestedRespect(attack) ==
    /\ "result" \in DOMAIN attack
    /\ attack["result"].t = "obj"
    /\ "respect" \in DOMAIN attack["result"].o

\* Lines 1566-1612.  `respect > 0` raises TypeError unless respect is a
\* number; 1.0 and 0.0 are 10 and 0 tenths.
calculate_attack_points(attack) ==
    LET respect == IF NestedRespect(attack) THEN attack["result"].o["respect"]
                   ELSE FlatRespect(attack)
        result  == IF NestedRespect(attack) THEN Text("Success")
                   ELSE IF "result" \in DOMAIN attack THEN attack["result"]
                   ELSE Text("")
    IN  IF respect.t /= "num" THEN [outcome |-> "raise", points |-> 0]
        ELSE IF respect.n > 0 THEN [outcome |-> "returned", points |-> respect.n]
        ELSE IF result.t = "text" /\ result.s \in successful_results
             THEN [outcome |-> "returned", points |-> 10]
        ELSE [outcome |-> "returned", points |-> 0]

\* the values a gain field is given: zero, 3.5, null, a text
GainValues == {Num(0), Num(35), Null, Text("3.5")}

\* the values of "result": an outcome text, null, or an object with or
\* without a respect value
ResultValues ==
    {Text("Hospitalized"), Text("Escape"), Null, Obj(EmptyDict)}
    \cup {Obj("respect" :> v) : v \in {Num(0), Num(35), Null}}

AttackKeys == {"respect_gain", "respect", "result"}

ValuesOf(k) == IF k = "result" THEN ResultValues ELSE GainValues

\* every payload with any subset of the three keys
AttackPayloads ==
    {a \in UNION {[ks -> GainValues \cup ResultValues] : ks \in SUBSET AttackKeys} :
        \A k \in DOMAIN a : a[k] \in ValuesOf(k)}

PointsInit ==
    /\ ProgramInit
    /\ payload \in AttackPayloads
    /\ out = NoOut

\* calculate_attack_points on the payload
Points ==
    /\ out.outcome = "none"
    /\ out' = calculate_attack_points(payload)
    /\ UNCHANGED <<dispatch, sw, upstream, current_war_data, previous_war_id, claimed_targets,
                   war_history, attack_logs, ct, ws, event, payload>>

PointsNext == Points

PointsSpec == PointsInit /\ [][PointsNext]_vars

\* the values held by the gain fields of a payload: respect_gain, respect
\* and the respect of a result object
GainFields(a) ==
    {a[k] : k \in DOMAIN a \cap {"respect_gain", "respect"}}
    \cup (IF NestedRespect(a) THEN {a["result"].o["respect"]} ELSE {})

NonZeroGains(a) == {v.n : v \in {g \in GainFields(a) : g.t = "num" /\ g.n /= 0}}

\* the outcome text of a payload, "" when it has none
Outcome(a) ==
    IF "result" \in DOMAIN a /\ a["result"].t = "text" THEN a["result"].s ELSE ""

\* C11: a payload with a non-zero value in any gain field (respect_gain,
\* respect, or respect inside the result object) is scored with that value,
\* whatever the other fields hold.
C11_GainVerbatim ==
    (out.outcome /= "none" /\ NonZeroGains(payload) /= {})
        => (out.outcome = "returned" /\ out.points \in NonZeroGains(payload))

\* C12: a payload without a non-zero gain field is scored 1.0 when its
\* outcome is one of the successful outcomes and 0.0 otherwise.
C12_DefaultPoint ==
    (out.outcome /= "none" /\ NonZeroGains(payload) = {})
        => (/\ out.outcome = "returned"
            /\ out.points = IF Outcome(payload) \in successful_results THEN 10 ELSE 0)

\* C13: calculate_attack_points returns a number for every payload shape;
\* it never raises.
C13_Total == out.outcome \in {"none", "returned"}

\* ------------------------------------------------------------------------
\* fetch_attacks_from_api (lines 1709-1841) and fetch_attacks_from_api_v1
\* (lines 1507-1564)
\*
\* The server keeps attacks as [t, body]: t is when the attack started and
\* body the payload it sends, a dict of JSON values.  /v2/user/attacksfull
\* answers from=<time> with the attacks that started at that time or later,
\* as a list or as a mapping; /user/?selections=attacks takes no time and
\* answers with all of them as a mapping.
\* ------------------------------------------------------------------------
\* Python's truth value of a JSON value
Truthy(v) ==
    \/ v.t = "num" /\ v.n /= 0
    \/ v.t = "text" /\ v.s /= ""
    \/ v.t = "obj" /\ DOMAIN v.o /= {}

\* str(v); the text of an object is never a number's
PyStr(v) ==
    IF v.t = "num" THEN str(v.n)
    ELSE IF v.t = "text" THEN v.s
    ELSE IF v.t = "null" THEN "None"
    ELSE "{}"

\* d.get(k) of a dict of JSON values: None when absent
GetVal(d, k) == IF k \in DOMAIN d THEN d[k] ELSE Null

\* Lines 1768, 1794: "k" in attack and isinstance(attack["k"], dict)
HasObj(attack, k) == k \in DOMAIN attack /\ attack[k].t = "obj"

\* Lines 1764-1782
DefenderFaction(attack) ==
    IF HasObj(attack, "defender")
    THEN LET defender == attack["defender"].o
         IN  IF "faction" \notin DOMAIN defender THEN Null
             ELSE IF defender["faction"].t = "obj" /\ "id" \in DOMAIN defender["faction"].o
                  THEN defender["faction"].o["id"]
             ELSE IF defender["faction"].t = "num" THEN defender["faction"]
             ELSE Null
    ELSE IF "defender_faction" \in DOMAIN attack THEN attack["defender_faction"]
    ELSE Null

\* Lines 1765-1782
DefenderId(attack) ==
    IF HasObj(attack, "defender") THEN GetVal(attack["defender"].o, "id")
    ELSE IF "defender_faction" \in DOMAIN attack THEN GetVal(attack, "defender_id")
    ELSE Null

\* Lines 1791-1801
AttackerId(attack) ==
    IF HasObj(attack, "attacker") THEN GetVal(attack["attacker"].o, "id")
    ELSE GetVal(attack, "attacker_id")

\* Line 1819: datetime.now(), later than every attack
Now == 9

\* Lines 1819-1826
Timestamp(attack) ==
    IF "started" \in DOMAIN attack THEN attack["started"]
    ELSE IF "timestamp_started" \in DOMAIN attack THEN attack["timestamp_started"]
    ELSE Num(Now)

\* AgainstOpponent without the comparison with the opponent id
AgainstOpponent_any(faction, opponent_id) == Truthy(faction)

\* Lines 1785, 1789 and 1548
AgainstOpponent(faction, opponent_id) == Truthy(faction) /\ PyStr(faction) = str(opponent_id)

\* Lines 1789-1809: does the loop body reach the append for this attack
Imported(attack, opponent_id) ==
    /\ AgainstOpponent(DefenderFaction(attack), opponent_id)
    /\ Truthy(AttackerId(attack))
    /\ Truthy(DefenderId(attack))

\* Lines 1829-1836
ImportedRecord(attack) ==
    [attacker_id |-> PyStr(AttackerId(attack)),
     defender_id |-> PyStr(DefenderId(attack)),
     points |-> calculate_attack_points(attack).points,
     timestamp |-> Timestamp(attack),
     respect |-> GetVal(attack, "respect_gain"),
     result |-> GetVal(attack, "result")]

\* Lines 1714-1841.  data is what get_json returned: [kind |-> "raise"],
\* [kind |-> "error"] (a body without "attacks") or [kind |-> "attacks",
\* shape, items]; both shapes are walked in order.  The result carries,
\* next to the records, the attacks they were made from.  An exception of
\* calculate_attack_points leaves through line 1839.
fetch_attacks_from_api(data, cwd) ==
    IF data.kind /= "attacks" \/ Get(cwd, "opponent_id", 0) = 0
    THEN [outcome |-> "imported", kept |-> <<>>, records |-> <<>>]
    ELSE LET Keep(a) == Imported(a, cwd["opponent_id"])
             kept == SelectSeq(data.items, Keep)
         IN  IF \E i \in DOMAIN kept : calculate_attack_points(kept[i]).outcome = "raise"
             THEN [outcome |-> "imported", kept |-> <<>>, records |-> <<>>]
             ELSE [outcome |-> "imported", kept |-> kept,
                   records |-> [i \in DOMAIN kept |-> ImportedRecord(kept[i])]]

\* Lines 1536-1548: the attacks the v1 loop appends.  An attack without a
\* start time is skipped.
ImportedV1(attack, war_start_time, opponent_id) ==
    LET ts == GetVal(attack, "timestamp_started")
    IN  /\ Truthy(ts)
        /\ ts.n >= war_start_time
        /\ AgainstOpponent(GetVal(attack, "defender_faction"), opponent_id)

\* Lines 1552-1559: str(attack.get("attacker_id", ""))
ImportedRecordV1(attack) ==
    [attacker_id |-> IF "attacker_id" \in DOMAIN attack THEN PyStr(attack["attacker_id"]) ELSE "",
     defender_id |-> IF "defender_id" \in DOMAIN attack THEN PyStr(attack["defender_id"]) ELSE "",
     points |-> calculate_attack_points(attack).points,
     timestamp |-> attack["timestamp_started"],
     respect |-> IF "respect_gain" \in DOMAIN attack THEN attack["respect_gain"] ELSE Num(0),
     result |-> IF "result" \in DOMAIN attack THEN attack["result"] ELSE Text("")]

\* Lines 1507-1564, called without an opponent_id.  A list has no
\* .items() (AttributeError) and a start time that is not a number cannot
\* be converted (TypeError): both leave through line 1562.
fetch_attacks_from_api_v1(data, cwd, war_start_time) ==
    IF \/ Get(cwd, "opponent_id", 0) = 0
       \/ data.kind /= "attacks"
       \/ data.shape /= "dict"
       \/ \E i \in DOMAIN data.items :
              LET ts == GetVal(data.items[i], "timestamp_started")
              IN  Truthy(ts) /\ ts.t /= "num"
    THEN [outcome |-> "imported", kept |-> <<>>, records |-> <<>>]
    ELSE LET Keep(a) == ImportedV1(a, war_start_time, cwd["opponent_id"])
             kept == SelectSeq(data.items, Keep)
         IN  IF \E i \in DOMAIN kept : calculate_attack_points(kept[i]).outcome = "raise"
             THEN [outcome |-> "imported", kept |-> <<>>, records |-> <<>>]
             ELSE [outcome |-> "imported", kept |-> kept,
                   records |-> [i \in DOMAIN kept |-> ImportedRecordV1(kept[i])]]

\* ----- the server's attacks -----
MaxItems == 2

OpponentId == FACTION_ID + 1

\* a dict without the key k
Without(d, k) == [x \in DOMAIN d \ {k} |-> d[x]]

\* the nested shape: defender and attacker are objects
NestedBody(faction, t) ==
    ("defender" :> Obj(("id" :> Num(1)) @@ faction))
    @@ ("attacker" :> Obj("id" :> Num(21)))
    @@ ("started" :> Num(t))
    @@ ("respect_gain" :> Num(35))

\* the flat shape
FlatBody(faction, t) ==
    ("defender_faction" :> faction)
    @@ ("defender_id" :> Num(1))
    @@ ("attacker_id" :> Num(21))
    @@ ("timestamp_started" :> Num(t))
    @@ ("result" :> Text("Hospitalized"))

\* the "faction" of a nested defender: an object with an id, a bare id, a
\* text, or no key at all; of the opponent or of another faction
NestedFactions ==
    {"faction" :> f : f \in {Obj("id" :> Num(OpponentId)), Num(OpponentId),
                            Obj("id" :> Num(OpponentId + 1)), Num(OpponentId + 1),
                            Text(str(OpponentId))}}
    \cup {EmptyDict}

FlatFactions == {Num(OpponentId), Num(OpponentId + 1), Text(str(OpponentId))}

AttackTimes == {2, 4}

\* attacks on the opponent that lack an id or a start time, or carry a
\* null gain
OddBodies ==
    LET n == NestedBody("faction" :> Num(OpponentId), 4)
        f == FlatBody(Num(OpponentId), 4)
    IN  {[n EXCEPT !["attacker"] = Obj(EmptyDict)],
         [n EXCEPT !["defender"] = Obj("faction" :> Num(OpponentId))],
         Without(f, "attacker_id"),
         Without(n, "started"),
         [n EXCEPT !["respect_gain"] = Null]}

ServerAttacks ==
    {[t |-> t, body |-> NestedBody(f, t)] : f \in NestedFactions, t \in AttackTimes}
    \cup {[t |-> t, body |-> FlatBody(f, t)] : f \in FlatFactions, t \in AttackTimes}
    \cup {[t |-> 4, body |-> b] : b \in OddBodies}

ServerLogs == UNION {[1..n -> ServerAttacks] : n \in 0..MaxItems}

StartValues == {1, 3}

\* the snapshot of a war against OpponentId
HeldSnapshot ==
    Snapshot([id |-> 1, start |-> 3, target |-> DEFAULT_TARGET],
             Faction(FACTION_ID, "Ours", 0, 0), Faction(OpponentId, "Opp1", 0, 0))

\* /v2/user/attacksfull?from=: the attacks that started at from or later
AttacksFull(log, from) ==
    LET Late(a) == a.t >= from
        late == SelectSeq(log, Late)
    IN  [i \in DOMAIN late |-> late[i].body]

\* /user/?selections=attacks: all of them
AllAttacks(log) == [i \in DOMAIN log |-> log[i].body]

ResponseKinds == {"attacks", "error", "raise"}

\* a snapshot is held or not; the server has some attacks, which it sends
\* in one of the two shapes; the import is asked for some start time
ImportInit ==
    /\ upstream = [cur |-> 0, last |-> 0, our |-> 0]
    /\ current_war_data \in {EmptyDict, HeldSnapshot}
    /\ previous_war_id = None
    /\ claimed_targets = EmptyDict
    /\ war_history = <<>>
    /\ attack_logs = EmptyDict
    /\ ct = [pc |-> "idle", war_id |-> None, idx |-> 0, user |-> 0, reported |-> None]
    /\ ws = [pc |-> "idle"]
    /\ event = NoEvent
    /\ DispatchInit
    /\ sw = [pc |-> "idle"]
    /\ payload \in [war_start_time : StartValues, shape : {"list", "dict"}, log : ServerLogs]
    /\ out = NoOut

\* fetch_attacks_from_api(war_start_time)
ImportV2 ==
    /\ out.outcome = "none"
    /\ \E kind \in ResponseKinds :
          out' = fetch_attacks_from_api(
                     [kind |-> kind, shape |-> payload.shape,
                      items |-> AttacksFull(payload.log, payload.war_start_time)],
                     current_war_data)
    /\ UNCHANGED <<dispatch, sw, upstream, current_war_data, previous_war_id, claimed_targets,
                   war_history, attack_logs, ct, ws, event, payload>>

\* fetch_attacks_from_api_v1(war_start_time)
ImportV1 ==
    /\ out.outcome = "none"
    /\ \E kind \in ResponseKinds :
          out' = fetch_attacks_from_api_v1(
                     [kind |-> kind, shape |-> payload.shape,
                      items |-> AllAttacks(payload.log)],
                     current_war_data, payload.war_start_time)
    /\ UNCHANGED <<dispatch, sw, upstream, current_war_data, previous_war_id, claimed_targets,
                   war_history, attack_logs, ct, ws, event, payload>>

ImportNext == ImportV2 \/ ImportV1

ImportSpec == ImportInit /\ [][ImportNext]_vars

\* the texts of the faction ids a payload gives for its defender
FactionTexts(attack) ==
    {PyStr(v) : v \in
        (IF HasObj(attack, "defender") /\ "faction" \in DOMAIN attack["defender"].o
         THEN LET f == attack["defender"].o["faction"]
              IN  IF f.t = "obj" THEN {f.o[k] : k \in DOMAIN f.o \cap {"id"}} ELSE {f}
         ELSE {})
        \cup {attack[k] : k \in DOMAIN attack \cap {"defender_faction"}}}

RECURSIVE InsertDesc(_, _)
InsertDesc(sorted, x) ==
    IF sorted = <<>> THEN <<x>>
    ELSE IF Head(sorted).key >= x.key
         THEN <<Head(sorted)>> \o InsertDesc(Tail(sorted), x)
         ELSE <<x>> \o sorted

RECURSIVE SortedDesc(_)
SortedDesc(pairs) ==
    IF pairs = <<>> THEN <<>>
    ELSE InsertDesc(SortedDesc(SubSeq(pairs, 1, Len(pairs) - 1)), pairs[Len(pairs)])

RECURSIVE SumPoints(_)
SumPoints(attacks) ==
    IF attacks = <<>> THEN 0 ELSE Head(attacks).points + SumPoints(Tail(attacks))

\* get_member_attacks that compares the ids themselves, not their texts
get_member_attacks_raw(member_id, war_id, logs, cwd) ==
    LET w == IF war_id = None THEN Get(cwd, "war_id", None) ELSE war_id
        Mine(attack) == attack.attacker_id = member_id
    IN  IF w = None \/ w \notin DOMAIN logs THEN <<>>
        ELSE SelectSeq(logs[w].attacks, Mine)

\* Lines 190-201.  Ids are JSON values: numbers or texts.
get_member_attacks(member_id, war_id, logs, cwd) ==
    LET w == IF war_id = None THEN Get(cwd, "war_id", None) ELSE war_id
        Mine(attack) == PyStr(attack.attacker_id) = PyStr(member_id)
    IN  IF w = None \/ w \notin DOMAIN logs THEN <<>>
        ELSE SelectSeq(logs[w].attacks, Mine)

\* Line 216: [:5]
LastShown == 5

\* Lines 203-223.  average_points is the quotient total_points /
\* len(attacks), kept as [num, den].
get_user_stats(member_id, war_id, logs, cwd) ==
    LET attacks == get_member_attacks(member_id, war_id, logs, cwd)
        sorted == SortedDesc([i \in DOMAIN attacks |->
                                 [key |-> attacks[i].timestamp, val |-> attacks[i]]])
        last_attacks == SubSeq(sorted, 1, IF Len(sorted) < LastShown THEN Len(sorted)
                                          ELSE LastShown)
    IN  IF attacks = <<>>
        THEN [outcome |-> "stats", total_attacks |-> 0, total_points |-> 0,
              average_points |-> [num |-> 0, den |-> 1], last_attacks |-> <<>>]
        ELSE [outcome |-> "stats", total_attacks |-> Len(attacks),
              total_points |-> SumPoints(attacks),
              average_points |-> [num |-> SumPoints(attacks), den |-> Len(attacks)],
              last_attacks |-> [i \in DOMAIN last_attacks |-> last_attacks[i].val.points]]

\* ----- the ledgers the statistics are asked of -----
MaxRecords == 6

\* attacks of member 21, stored as a number or as a text, and of member 22
StoredAttacks ==
    {AttackRecord(Num(21), Num(1), 1, 1),
     AttackRecord(Text("21"), Num(1), 3, 2),
     AttackRecord(Num(22), Num(1), 2, 2)}

StoredLists == UNION {[1..n -> StoredAttacks] : n \in 0..MaxRecords}

AskedMembers == {Num(21), Text("21"), Num(22), Num(23)}

AskedWars == {"1", "2", None}

\* war "1" is tracked or no war is; the ledger has an entry for war "1" or
\* none at all
StatsInit ==
    /\ upstream = [cur |-> 0, last |-> 0, our |-> 0]
    /\ current_war_data \in {EmptyDict, HeldSnapshot}
    /\ previous_war_id = None
    /\ claimed_targets = EmptyDict
    /\ war_history = <<>>
    /\ attack_logs \in {EmptyDict}
          \cup {"1" :> [attacks |-> l, start_time |-> 3, faction_id |-> FACTION_ID] :
                    l \in StoredLists}
    /\ ct = [pc |-> "idle", war_id |-> None, idx |-> 0, user |-> 0, reported |-> None]
    /\ ws = [pc |-> "idle"]
    /\ event = NoEvent
    /\ DispatchInit
    /\ sw = [pc |-> "idle"]
    /\ payload = NoPayload
    /\ out = NoOut

\* get_user_stats(member_id, war_id)
Stats ==
    /\ out.outcome = "none"
    /\ \E member_id \in AskedMembers, war_id \in AskedWars :
          /\ out' = get_user_stats(member_id, war_id, attack_logs, current_war_data)
          /\ event' = [op |-> "stats", arg |-> member_id, war |-> war_id,
                       result |-> "ok", tag |-> ""]
    /\ UNCHANGED <<dispatch, sw, upstream, current_war_data, previous_war_id, claimed_targets,
                   war_history, attack_logs, ct, ws, payload>>

StatsNext == Stats

StatsSpec == StatsInit /\ [][StatsNext]_vars

\* the war a query is about
AskedWar(war_id, cwd) == IF war_id = None THEN Get(cwd, "war_id", None) ELSE war_id

\* the positions in that war's list of the attacks of the member, the ids
\* compared as texts
MineIn(member_id, war_id, logs, cwd) ==
    LET w == AskedWar(war_id, cwd)
    IN  IF w = None \/ w \notin DOMAIN logs THEN {}
        ELSE {i \in DOMAIN logs[w].attacks :
                 PyStr(logs[w].attacks[i].attacker_id) = PyStr(member_id)}

RECURSIVE SumOver(_, _)
SumOver(attacks, positions) ==
    IF positions = {} THEN 0
    ELSE LET i == CHOOSE x \in positions : TRUE
         IN  attacks[i].points + SumOver(attacks, positions \ {i})

\* the place of position i among the positions when ordered by timestamp
\* descending, earlier positions first among equal timestamps
RankIn(attacks, positions, i) ==
    1 + Cardinality({j \in positions :
                        \/ attacks[j].timestamp > attacks[i].timestamp
                        \/ attacks[j].timestamp = attacks[i].timestamp /\ j < i})

\* C15: the statistics of a member in a war count and sum the war's records
\* whose attacker id equals the member id as a text, average them, and list
\* the points of the (at most five) latest by timestamp descending; without
\* such records, or without a war, everything is zero; the ledger is left
\* as it was.
C15_Stats ==
    [][event'.op = "stats" =>
         LET mine == MineIn(event'.arg, event'.war, attack_logs, current_war_data)
             n == Cardinality(mine)
             attacks == attack_logs[AskedWar(event'.war, current_war_data)].attacks
         IN  /\ attack_logs' = attack_logs
             /\ out'.total_attacks = n
             /\ IF n = 0
                THEN /\ out'.total_points = 0
                     /\ out'.average_points.num = 0
                     /\ out'.last_attacks = <<>>
                ELSE /\ out'.total_points = SumOver(attacks, mine)
                     /\ out'.average_points.num * n
                            = SumOver(attacks, mine) * out'.average_points.den
                     /\ Len(out'.last_attacks) = (IF n < 5 THEN n ELSE 5)
                     /\ \A i \in mine :
                            RankIn(attacks, mine, i) <= 5
                                => out'.last_attacks[RankIn(attacks, mine, i)]
                                       = attacks[i].points]_vars

\* a member with six records, stored under both forms of the id, was asked
\* for by the text of the id
C15_Witness ==
    /\ event.op = "stats" /\ event.arg = Text("21") /\ event.war = None
    /\ out.total_attacks = 6
    /\ Len(out.last_attacks) = 5
    /\ out.last_attacks[1] /= out.last_attacks[5]
    /\ \E i \in DOMAIN attack_logs["1"].attacks :
           attack_logs["1"].attacks[i].attacker_id = Num(21)

\* ------------------------------------------------------------------------
\* The claim registry (Spec)
\* ------------------------------------------------------------------------
\* the registry d with member m claimed by user u and nothing else changed
WithClaim(d, m, u) == [k \in DOMAIN d \cup {m} |-> IF k = m THEN u ELSE d[k]]

\* the registry d without member m and nothing else changed
WithoutClaim(d, m) == [k \in DOMAIN d \ {m} |-> d[k]]

\* C16: a claim always succeeds and leaves the registry with that member
\* claimed by that user, whoever held it before, and every other claim as
\* it was; a claim by reaction writes the key of the posted member, the
\* key the command uses; the registry holds one user per member id.
C16_Claim ==
    [][/\ event'.op = "claim" =>
            /\ event'.result = "ok"
            /\ claimed_targets' = WithClaim(claimed_targets, event'.arg[1], event'.arg[2])
       /\ (ct.pc = "edit" /\ ct' /= ct /\ claimed_targets' /= claimed_targets) =>
            claimed_targets' = WithClaim(claimed_targets, int(MemberKeys[ct.idx]), ct.user)
       /\ DOMAIN claimed_targets' \subseteq Members
       /\ \A m \in DOMAIN claimed_targets' : claimed_targets'[m] \in Users]_vars

\* a command claimed a member while another member is claimed by a
\* different user
C16_Witness ==
    /\ event.op = "claim"
    /\ \E m \in DOMAIN claimed_targets :
          m /= event.arg[1] /\ claimed_targets[m] /= claimed_targets[event.arg[1]]

\* C17: unclaim of a claimed member removes that claim and no other;
\* unclaim of a member that is not claimed answers "not claimed" and leaves
\* the registry as it was (so a second unclaim changes nothing).
C17_Unclaim ==
    [][event'.op = "unclaim" =>
         IF event'.arg \in DOMAIN claimed_targets
         THEN /\ event'.result = "ok"
              /\ claimed_targets' = WithoutClaim(claimed_targets, event'.arg)
         ELSE /\ event'.result = "not_claimed"
              /\ claimed_targets' = claimed_targets]_vars

\* an unclaim removed one claim and another one is still there
C17_Witness ==
    /\ event.op = "unclaim" /\ event.result = "ok"
    /\ event.arg \notin DOMAIN claimed_targets
    /\ claimed_targets /= EmptyDict

\* ------------------------------------------------------------------------
\* fetch_war_leaderboard_data (lines 1614-1707)
\*
\* The server has a report for every war that has ended and for no other.
\* A report is [id, factions]; the tracked faction's entry in it carries
\* "members" as a list, as a mapping, or not at all.
\* ------------------------------------------------------------------------
\* Lines 1688-1694
Contributor(member) ==
    [id |-> str(member.id), name |-> member.name, attacks |-> member.attacks,
     points |-> member.score, level |-> member.level]

\* Lines 1685-1694: contributors[member_id] = {...}; a key that is already
\* there keeps its place and takes the new value
RECURSIVE PutContributors(_, _, _)
PutContributors(members, i, acc) ==
    IF i > Len(members) THEN acc
    ELSE LET c == Contributor(members[i])
         IN  IF \E j \in DOMAIN acc : acc[j].id = c.id
             THEN PutContributors(members, i + 1,
                                  [j \in DOMAIN acc |-> IF acc[j].id = c.id THEN c ELSE acc[j]])
             ELSE PutContributors(members, i + 1, Append(acc, c))

\* sorted_contributors without reverse=True: ascending by points
sorted_contributors_asc(members) ==
    LET values == PutContributors(members, 1, <<>>)
        sorted == SortedDesc([i \in DOMAIN values |->
                                 [key |-> 0 - values[i].points, val |-> values[i]]])
    IN  [i \in DOMAIN sorted |-> sorted[i].val]

\* Line 1697: sorted(contributors.values(), key=points, reverse=True)
sorted_contributors(members) ==
    LET values == PutContributors(members, 1, <<>>)
        sorted == SortedDesc([i \in DOMAIN values |->
                                 [key |-> values[i].points, val |-> values[i]]])
    IN  [i \in DOMAIN sorted |-> sorted[i].val]

\* Lines 1677-1681: the first faction of the report with the tracked id
RECURSIVE OurFactionData(_, _)
OurFactionData(factions, i) ==
    IF i > Len(factions) THEN <<>>
    ELSE IF factions[i].id = FACTION_ID THEN <<factions[i]>>
    ELSE OurFactionData(factions, i + 1)

\* Lines 1639-1646: the id of the first war of the list with end > 0
RECURSIVE LatestCompleted(_, _)
LatestCompleted(wars, i) ==
    IF i > Len(wars) THEN None
    ELSE IF IsCompletedWar(wars[i]) THEN str(wars[i].id)
    ELSE LatestCompleted(wars, i + 1)

NoContributors == [outcome |-> "None", contributors |-> <<>>, war_id |-> None]

\* ReportMatches without the comparison of line 1673
ReportMatches_any(war_id, report_id) == TRUE

\* Lines 1668-1673: without a requested war the report's own id is taken
ReportMatches(war_id, report_id) == war_id = None \/ str(report_id) = war_id

\* Lines 1629-1707, after the fetches: asked is the war_id argument,
\* wars_data the rankedwars response (fetched only without an argument) and
\* api_data the rankedwarreport response.  A raising fetch, and the
\* TypeError of member["id"] on the keys of a mapping, leave through
\* line 1705.
fetch_war_leaderboard_data(asked, wars_data, api_data) ==
    LET war_id == IF asked /= None THEN asked
                  ELSE IF wars_data.kind = "wars"
                       THEN LatestCompleted(wars_data.rankedwars, 1)
                       ELSE None
        ours == OurFactionData(api_data.factions, 1)
    IN  IF asked = None /\ wars_data.kind = "raise" THEN NoContributors
        ELSE IF api_data.kind /= "report" THEN NoContributors
        ELSE IF ~ReportMatches(war_id, api_data.id) THEN NoContributors
        ELSE IF ours = <<>> THEN NoContributors
        ELSE IF ours[1].members_shape = "none" THEN NoContributors
        ELSE IF ours[1].members_shape = "dict" /\ ours[1].members /= <<>> THEN NoContributors
        ELSE [outcome |-> "list", contributors |-> sorted_contributors(ours[1].members),
              war_id |-> str(api_data.id)]

\* ----- the server's reports -----
MaxContributors == 3

Member(id, score) ==
    [id |-> id, name |-> str(id), attacks |-> 4, score |-> score, level |-> 30]

ReportedMembers == {Member(id, score) : id \in 1..3, score \in {5, 9}}

MemberLists == UNION {[1..n -> ReportedMembers] : n \in 0..MaxContributors}

\* the tracked faction's entry of a report: with a member list, with a
\* mapping of members, without "members", or missing from the report
OurEntries ==
    {[form |-> "list", members |-> l] : l \in MemberLists}
    \cup {[form |-> "dict", members |-> <<Member(1, 5)>>]}
    \cup {[form |-> f, members |-> <<>>] : f \in {"none", "absent"}}

\* the report of war w
Report(w, ours) ==
    [kind |-> "report", id |-> w,
     factions |-> <<[id |-> OppId(w), members_shape |-> "list", members |-> <<>>]>>
                  \o (IF ours.form = "absent" THEN <<>>
                      ELSE <<[id |-> FACTION_ID, members_shape |-> ours.form,
                              members |-> ours.members]>>)]

\* a response without a report
NoReport(kind) == [kind |-> kind, id |-> 0, factions |-> <<>>]

\* what the server may answer to a rankedwarreport request: nothing, an
\* error body, or the report of a war that has ended (of the war asked
\* for or of another one)
ReportResponses(server) ==
    {NoReport("raise"), NoReport("error")} \cup {Report(w, server.ours) : w \in server.ended}

\* the rankedwars list of the server, latest war first
RankedWars(server) ==
    [i \in 1..MaxWars |->
        [id |-> MaxWars + 1 - i, has_end |-> TRUE,
         end |-> IF (MaxWars + 1 - i) \in server.ended THEN 150 ELSE 0]]

WarsResponses(server) ==
    {[kind |-> "raise", rankedwars |-> <<>>], [kind |-> "error", rankedwars |-> <<>>],
     [kind |-> "wars", rankedwars |-> RankedWars(server)]}

ContribInit ==
    /\ ProgramInit
    /\ payload \in [ended : SUBSET (1..MaxWars), ours : OurEntries]
    /\ out = NoOut

\* fetch_war_leaderboard_data(war_id)
FetchLeaderboard ==
    /\ out.outcome = "none"
    /\ \E asked \in WarIds \cup {None}, api_data \in ReportResponses(payload) :
       \E wars_data \in IF asked = None THEN WarsResponses(payload)
                        ELSE {[kind |-> "unused", rankedwars |-> <<>>]} :
          /\ out' = fetch_war_leaderboard_data(asked, wars_data, api_data)
          /\ event' = [op |-> "leaderboard_data", arg |-> asked,
                       war |-> IF api_data.kind = "report" THEN str(api_data.id) ELSE None,
                       result |-> wars_data.kind, tag |-> api_data.kind]
    /\ UNCHANGED <<dispatch, sw, upstream, current_war_data, previous_war_id, claimed_targets,
                   war_history, attack_logs, ct, ws, payload>>

ContribNext == FetchLeaderboard

ContribSpec == ContribInit /\ [][ContribNext]_vars

\* the wars that have ended, by their ids as texts
EndedIds == {str(w) : w \in payload.ended}

\* C18: fetch_war_leaderboard_data returns None when the war asked for has
\* not ended or is unknown, when the report is of another war, and when a
\* fetch fails; it returns a list only for the report of an ended war, the
\* one asked for, that has the tracked faction with a member list.
C18_NoneUnlessEndedReport ==
    event.op = "leaderboard_data" =>
        /\ (\/ event.arg /= None /\ event.arg \notin EndedIds
            \/ event.arg /= None /\ event.war /= event.arg
            \/ event.tag \in {"raise", "error"}
            \/ event.result = "raise")
               => out.outcome = "None"
        /\ out.outcome = "list" =>
               /\ event.tag = "report"
               /\ event.war \in EndedIds
               /\ event.arg /= None => event.war = event.arg
               /\ payload.ours.form = "list"
               /\ out.war_id = event.war

\* the report of the ended war asked for came without any member and the
\* result is the empty list
C18_Witness ==
    /\ event.op = "leaderboard_data" /\ event.arg = "2" /\ event.war = "2"
    /\ out.outcome = "list" /\ out.contributors = <<>>
    /\ payload.ended = {1, 2}

\* the first and the last place of member id in the reported list
FirstPlace(members, id) == CHOOSE j \in DOMAIN members :
    str(members[j].id) = id /\ \A k \in 1..(j - 1) : str(members[k].id) /= id

LastPlace(members, id) == CHOOSE j \in DOMAIN members :
    str(members[j].id) = id /\ \A k \in (j + 1)..Len(members) : str(members[k].id) /= id

\* C19: the contributor list has one entry for every reported member id,
\* with that member's reported values, in descending order of points, and
\* entries with equal points are in the order in which the report gave them.
C19_SortedPermutation ==
    out.outcome = "list" =>
        LET c == out.contributors
            members == payload.ours.members
        IN  /\ {c[i].id : i \in DOMAIN c} = {str(members[j].id) : j \in DOMAIN members}
            /\ \A i, j \in DOMAIN c : i /= j => c[i].id /= c[j].id
            /\ \A i \in DOMAIN c : c[i] = Contributor(members[LastPlace(members, c[i].id)])
            /\ \A i, j \in DOMAIN c : i < j =>
                   /\ c[i].points >= c[j].points
                   /\ c[i].points = c[j].points
                          => FirstPlace(members, c[i].id) < FirstPlace(members, c[j].id)

\* three contributors, the last reported one first and the other two, with
\* equal points, behind it
C19_Witness ==
    /\ out.outcome = "list"
    /\ Len(out.contributors) = 3
    /\ out.contributors[1].points > out.contributors[2].points
    /\ out.contributors[2].points = out.contributors[3].points
    /\ out.contributors[1].id = str(payload.ours.members[3].id)

\* ------------------------------------------------------------------------
\* show_leaderboard (lines 1843-1970)
\* ------------------------------------------------------------------------
\* Lines 1907-1911: the tracked faction and the last other faction of the
\* report
RECURSIVE BoardFactions(_, _, _)
BoardFactions(factions, i, acc) ==
    IF i > Len(factions) THEN acc
    ELSE IF factions[i].id = FACTION_ID
         THEN BoardFactions(factions, i + 1, [acc EXCEPT !.our = <<factions[i]>>])
         ELSE BoardFactions(factions, i + 1, [acc EXCEPT !.opp = <<factions[i]>>])

\* Line 1926
items_per_page == 10

\* Lines 1926-1936 (and 1196-1208 with wars_per_page): the number of
\* pages, the page after validation and the slice of that page
paginate_unclamped(items, page_size, page) ==
    LET total_items == Len(items)
        total_pages == IF (total_items + page_size - 1) \div page_size < 1 THEN 1
                       ELSE (total_items + page_size - 1) \div page_size
        p == IF page < 1 THEN 1 ELSE page
        start_index == (p - 1) * page_size
        end_index == IF start_index + page_size < total_items
                     THEN start_index + page_size ELSE total_items
    IN  [outcome |-> "page", items |-> SubSeq(items, start_index + 1, end_index),
         total_pages |-> total_pages, page |-> p]

paginate(items, page_size, page) ==
    LET total_items == Len(items)
        total_pages == IF (total_items + page_size - 1) \div page_size < 1 THEN 1
                       ELSE (total_items + page_size - 1) \div page_size
        p == IF (IF page < total_pages THEN page ELSE total_pages) < 1 THEN 1
             ELSE IF page < total_pages THEN page ELSE total_pages
        start_index == (p - 1) * page_size
        end_index == IF start_index + page_size < total_items
                     THEN start_index + page_size ELSE total_items
    IN  [outcome |-> "page", items |-> SubSeq(items, start_index + 1, end_index),
         total_pages |-> total_pages, page |-> p]

\* Lines 1926-1936: the slice of the page, page clamped into 1..total_pages
PageOf(items, page) == paginate(items, items_per_page, page).items

Message(kind) == [outcome |-> kind, rows |-> <<>>, war_id |-> None]

\* Lines 1855-1970: what the command answers.  official is what
\* fetch_war_leaderboard_data returned and war_data the report it returned
\* with it; current_war_data is read after that fetch.  Without official
\* contributors (None or an empty list) the command answers with a message
\* and returns; attack_logs is not read.
show_leaderboard(war_id, page, official, war_data, cwd) ==
    IF official.outcome = "None" \/ official.contributors = <<>>
    THEN LET current_war_id == Get(cwd, "war_id", None)
             is_current_war == war_id /= None /\ war_id = current_war_id
         IN  IF is_current_war \/ (war_id = None /\ current_war_id /= None)
             THEN Message("in_progress")
             ELSE Message("not_found")
    ELSE LET fs == BoardFactions(war_data.factions, 1, [our |-> <<>>, opp |-> <<>>])
         IN  IF fs.our = <<>> \/ fs.opp = <<>> THEN Message("no_factions")
             ELSE LET page_data == PageOf(official.contributors, page)
                  IN  [outcome |-> "board",
                       rows |-> [i \in DOMAIN page_data |->
                                    [id |-> page_data[i].id,
                                     attacks |-> page_data[i].attacks,
                                     points |-> page_data[i].points]],
                       war_id |-> official.war_id]

\* ----- the states the command is given in -----
\* the tracked faction's entry of a report: no member, two members, no
\* "members", or no entry
BoardEntries ==
    {[form |-> "list", members |-> <<>>],
     [form |-> "list", members |-> <<Member(1, 5), Member(2, 9)>>],
     [form |-> "none", members |-> <<>>],
     [form |-> "absent", members |-> <<>>]}

\* the attacks recorded for a war
RecordedAttacks == {AttackRecord(21, 1, 3, 5), AttackRecord(22, 1, 1, 6)}

BoardLedgers ==
    {EmptyDict}
    \cup {w :> [attacks |-> l, start_time |-> 3, faction_id |-> FACTION_ID] :
             w \in WarIds, l \in UNION {[1..n -> RecordedAttacks] : n \in 0..MaxAttacks}}

\* war "1" is tracked and has not ended, or no war is tracked
BoardInit ==
    /\ upstream = [cur |-> 0, last |-> 0, our |-> 0]
    /\ current_war_data \in {EmptyDict, HeldSnapshot}
    /\ previous_war_id = None
    /\ claimed_targets = EmptyDict
    /\ war_history = <<>>
    /\ attack_logs \in BoardLedgers
    /\ ct = [pc |-> "idle", war_id |-> None, idx |-> 0, user |-> 0, reported |-> None]
    /\ ws = [pc |-> "idle"]
    /\ event = NoEvent
    /\ DispatchInit
    /\ sw = [pc |-> "idle"]
    /\ payload \in [ended : SUBSET (1..MaxWars), ours : BoardEntries]
    /\ current_war_data /= EmptyDict => 1 \notin payload.ended
    /\ out = NoOut

\* show_leaderboard(war_id), first page
ShowLeaderboard ==
    /\ out.outcome = "none"
    /\ \E asked \in WarIds \cup {None}, api_data \in ReportResponses(payload) :
       \E wars_data \in IF asked = None THEN WarsResponses(payload)
                        ELSE {[kind |-> "unused", rankedwars |-> <<>>]} :
          LET official == fetch_war_leaderboard_data(asked, wars_data, api_data)
          IN  /\ out' = show_leaderboard(asked, 1, official, api_data, current_war_data)
              /\ event' = [op |-> "leaderboard", arg |-> asked, war |-> official.war_id,
                           result |-> official.outcome, tag |-> api_data.kind]
    /\ UNCHANGED <<dispatch, sw, upstream, current_war_data, previous_war_id, claimed_targets,
                   war_history, attack_logs, ct, ws, payload>>

BoardNext == ShowLeaderboard

BoardSpec == BoardInit /\ [][BoardNext]_vars

\* the attackers with records in a list
AttackersIn(attacks) == {attacks[i].attacker_id : i \in DOMAIN attacks}

\* the row of an attacker: the number of its records and their points
LedgerRow(attacks, a) ==
    LET mine == {i \in DOMAIN attacks : attacks[i].attacker_id = a}
    IN  [id |-> str(a), attacks |-> Cardinality(mine), points |-> SumOver(attacks, mine)]

\* the war a leaderboard request is about
BoardWar == IF event.arg /= None THEN event.arg ELSE Get(current_war_data, "war_id", None)

\* C20: when no official contributors are to be had for a war with recorded
\* attacks, the leaderboard of that war lists every member with recorded
\* attacks with the number of attacks and the total of points, in
\* descending order of points.
C20_LedgerFallback ==
    (/\ event.op = "leaderboard"
     /\ event.result = "None"
     /\ BoardWar \in DOMAIN attack_logs
     /\ attack_logs[BoardWar].attacks /= <<>>)
        => LET attacks == attack_logs[BoardWar].attacks
           IN  /\ out.outcome = "board"
               /\ Len(out.rows) = Cardinality(AttackersIn(attacks))
               /\ {out.rows[i] : i \in DOMAIN out.rows}
                      = {LedgerRow(attacks, a) : a \in AttackersIn(attacks)}
               /\ \A i, j \in DOMAIN out.rows :
                      i < j => out.rows[i].points >= out.rows[j].points

\* ------------------------------------------------------------------------
\* Pagination of the leaderboard and of the war history
\* (lines 1925-1936 and 1195-1208)
\* ------------------------------------------------------------------------
\* Line 1196
wars_per_page == 10

\* the most items a list is given with, and the pages asked for
MaxListed == 25
MaxPage == 4
AskedPages == (0 - 2)..MaxPage \cup {99}

\* a list of n items: the items are their positions
Listed(n) == [i \in 1..n |-> i]

PageInit ==
    /\ ProgramInit
    /\ payload \in [n : 0..MaxListed, page : AskedPages]
    /\ out = NoOut

\* the pagination of show_leaderboard on the payload
PageLeaderboard ==
    /\ out.outcome = "none"
    /\ out' = paginate(Listed(payload.n), items_per_page, payload.page)
    /\ event' = [NoEvent EXCEPT !.op = "leaderboard_page"]
    /\ UNCHANGED <<dispatch, sw, upstream, current_war_data, previous_war_id, claimed_targets,
                   war_history, attack_logs, ct, ws, payload>>

\* the pagination of show_war_history on the payload
PageHistory ==
    /\ out.outcome = "none"
    /\ out' = paginate(Listed(payload.n), wars_per_page, payload.page)
    /\ event' = [NoEvent EXCEPT !.op = "history_page"]
    /\ UNCHANGED <<dispatch, sw, upstream, current_war_data, previous_war_id, claimed_targets,
                   war_history, attack_logs, ct, ws, payload>>

PageNext == PageLeaderboard \/ PageHistory

PageSpec == PageInit /\ [][PageNext]_vars

\* the least number of pages of size that hold n items
CeilDiv(n, size) == CHOOSE k \in 0..n : k * size >= n /\ (k = 0 \/ (k - 1) * size < n)

\* the page size of the pagination that acted
PageSize == IF event.op = "history_page" THEN wars_per_page ELSE items_per_page

\* C21: for every number of items n >= 0 and every page asked for (zero,
\* negative and beyond the end included) the number of pages is
\* max(1, ceil(n / page_size)), the page shown is the asked page clamped into
\* 1..total_pages, and the items shown are exactly those at positions
\* (p-1)*page_size+1 .. min(p*page_size, n) of the list.
C21_Paginate ==
    out.outcome = "page"
        => LET n == payload.n
               size == PageSize
               pages == IF CeilDiv(n, size) < 1 THEN 1 ELSE CeilDiv(n, size)
               p == IF payload.page < 1 THEN 1
                    ELSE IF payload.page > pages THEN pages ELSE payload.page
               last == IF p * size < n THEN p * size ELSE n
           IN  /\ out.total_pages = pages
               /\ out.page = p
               /\ out.page \in 1..out.total_pages
               /\ Len(out.items) = (IF last > (p - 1) * size
                                    THEN last - (p - 1) * size ELSE 0)
               /\ \A i \in DOMAIN out.items : out.items[i] = (p - 1) * size + i

\* C21 witness: 25 items and page 99 are shown as page 3 of 3 with the 5
\* items 21..25.
C21_Witness ==
    /\ out.outcome = "page"
    /\ payload.n = 25
    /\ payload.page = 99
    /\ out.total_pages = 3
    /\ out.page = 3
    /\ out.items = <<21, 22, 23, 24, 25>>

\* ------------------------------------------------------------------------
\* calculate_war_pay (lines 2274-2622), the arithmetic after the
\* contributors are fetched (lines 2396-2571)
\* ------------------------------------------------------------------------
\* Amounts are held in hundredths of the currency unit, so that
\* shareholder_percentage / 100 is exact; a quotient is held as the pair of
\* its numerator and denominator.
Ratio(num, den) == [num |-> num, den |-> den]

\* a * b / c = d as quotients
SameRatio(a, b) == a.num * b.den = b.num * a.den

\* int(x) of a quotient in hundredths, in whole units: towards zero
IntOf(r) ==
    IF r.num >= 0 THEN r.num \div (100 * r.den)
    ELSE 0 - ((0 - r.num) \div (100 * r.den))

\* Line 2397
RECURSIVE total_attacks_of(_)
total_attacks_of(contributors) ==
    IF contributors = <<>> THEN 0
    ELSE Head(contributors).attacks + total_attacks_of(Tail(contributors))

\* the cut computed whatever the number of shareholders
shareholder_cut_unguarded(total_sale, shareholder_count, shareholder_percentage) ==
    total_sale * (shareholder_count * shareholder_percentage)

\* Lines 2400-2416
shareholder_cut(total_sale, shareholder_count, shareholder_percentage) ==
    IF shareholder_count > 0
    THEN total_sale * (shareholder_count * shareholder_percentage)
    ELSE 0

\* Line 2419
pay_per_hit_of(total_after_cut, total_attacks) ==
    IF total_attacks > 0 THEN Ratio(total_after_cut, total_attacks) ELSE Ratio(0, 1)

\* sorted(contributors, key=attacks) without reverse=True
sorted_by_attacks_asc(contributors) ==
    LET sorted == SortedDesc([i \in DOMAIN contributors |->
                     [key |-> 0 - contributors[i].attacks, val |-> contributors[i]]])
    IN  [i \in DOMAIN sorted |-> sorted[i].val]

\* Line 2481
sorted_by_attacks(contributors) ==
    LET sorted == SortedDesc([i \in DOMAIN contributors |->
                     [key |-> contributors[i].attacks, val |-> contributors[i]]])
    IN  [i \in DOMAIN sorted |-> sorted[i].val]

\* the loop of lines 2483-2495 without the skip of line 2489
RECURSIVE payout_details_all(_, _)
payout_details_all(sorted, pay_per_hit) ==
    IF sorted = <<>> THEN <<>>
    ELSE LET c == Head(sorted)
             payout == Ratio(c.attacks * pay_per_hit.num, pay_per_hit.den)
         IN  <<[name |-> c.name, attacks |-> c.attacks, payout |-> payout]>>
                 \o payout_details_all(Tail(sorted), pay_per_hit)

\* Lines 2483-2495: payout_details
RECURSIVE payout_details_of(_, _)
payout_details_of(sorted, pay_per_hit) ==
    IF sorted = <<>> THEN <<>>
    ELSE LET c == Head(sorted)
             payout == Ratio(c.attacks * pay_per_hit.num, pay_per_hit.den)
         IN  IF c.attacks = 0 THEN payout_details_of(Tail(sorted), pay_per_hit)
             ELSE <<[name |-> c.name, attacks |-> c.attacks, payout |-> payout]>>
                      \o payout_details_of(Tail(sorted), pay_per_hit)

\* Lines 2483-2516: the player lines of copy_text; the id is read from the
\* contributor of the iteration
RECURSIVE copy_lines(_, _)
copy_lines(sorted, pay_per_hit) ==
    IF sorted = <<>> THEN <<>>
    ELSE LET c == Head(sorted)
             payout == Ratio(c.attacks * pay_per_hit.num, pay_per_hit.den)
         IN  IF c.attacks = 0 THEN copy_lines(Tail(sorted), pay_per_hit)
             ELSE <<[name |-> c.name, player_id |-> c.id, attacks |-> c.attacks,
                     shown |-> IntOf(payout)]>>
                      \o copy_lines(Tail(sorted), pay_per_hit)

\* Lines 2552-2571 and 2587-2591: the player entries of the embed, chunk
\* after chunk; the id is read from sorted_contributors[i]
player_chunks(details, sorted) ==
    [i \in DOMAIN details |->
        [name |-> details[i].name, attacks |-> details[i].attacks,
         payout |-> details[i].payout, player_id |-> sorted[i].id,
         shown |-> IntOf(details[i].payout)]]

\* Lines 2396-2571: the plan that is displayed
calculate_war_pay(contributors, total_sale, shareholder_count, shareholder_percentage) ==
    LET total_attacks == total_attacks_of(contributors)
        cut == shareholder_cut(total_sale, shareholder_count, shareholder_percentage)
        total_after_cut == 100 * total_sale - cut
        pay_per_hit == pay_per_hit_of(total_after_cut, total_attacks)
        sorted == sorted_by_attacks(contributors)
        details == payout_details_of(sorted, pay_per_hit)
    IN  [outcome |-> "plan",
         total_attacks |-> total_attacks,
         shareholder_cut |-> cut,
         total_after_cut |-> total_after_cut,
         pay_per_hit |-> pay_per_hit,
         payout_details |-> details,
         copy_lines |-> copy_lines(sorted, pay_per_hit),
         player_chunks |-> player_chunks(details, sorted),
         total_payout |-> total_after_cut]

\* ----- the inputs of the command -----
MaxPaid == 3
AttackCounts == {0, 5, 10}
SaleValues == {0, 1000}
ShareholderCounts == {0 - 1, 0, 2}
PercentageValues == {4, 5}

\* the contributor at position i of the fetched list (lines 1688-1694)
Paid(i, attacks) ==
    [id |-> str(i), name |-> "m" \o str(i), attacks |-> attacks,
     points |-> attacks, level |-> 30]

PaidLists ==
    UNION {{[i \in 1..n |-> Paid(i, a[i])] : a \in [1..n -> AttackCounts]} : n \in 0..MaxPaid}

PayInit ==
    /\ ProgramInit
    /\ payload \in [contributors : PaidLists, total_sale : SaleValues,
                    shareholder_count : ShareholderCounts,
                    shareholder_percentage : PercentageValues]
    /\ out = NoOut

\* calculate_war_pay on the fetched contributors; without contributors the
\* command answers with a message and returns (lines 2337-2352)
CalculatePay ==
    /\ out.outcome = "none"
    /\ out' = IF payload.contributors = <<>> THEN [outcome |-> "not_found"]
              ELSE calculate_war_pay(payload.contributors, payload.total_sale,
                                     payload.shareholder_count,
                                     payload.shareholder_percentage)
    /\ UNCHANGED <<dispatch, sw, upstream, current_war_data, previous_war_id, claimed_targets,
                   war_history, attack_logs, ct, ws, event, payload>>

PayNext == CalculatePay

PaySpec == PayInit /\ [][PayNext]_vars

\* the sum of the attacks of the contributors at the positions
AttacksOver(contributors, positions) ==
    IF positions = {} THEN 0
    ELSE LET F[S \in SUBSET positions] ==
                 IF S = {} THEN 0
                 ELSE LET i == CHOOSE x \in S : TRUE
                      IN  contributors[i].attacks + F[S \ {i}]
         IN  F[positions]

\* what the plan must hold but for the shareholder cut
PayArithmetic(cut) ==
    LET total == AttacksOver(payload.contributors, DOMAIN payload.contributors)
    IN  /\ out.shareholder_cut = cut
        /\ out.total_after_cut = 100 * payload.total_sale - cut
        /\ out.total_attacks = total
        /\ IF total > 0 THEN SameRatio(out.pay_per_hit, Ratio(out.total_after_cut, total))
           ELSE out.pay_per_hit.num = 0

\* C22 as stated: the cut is totalSale * shareholderCount * pct / 100
\* whenever shareholderCount is not zero and 0 when it is zero; the amount
\* after the cut is the sale less the cut, the total of attacks is the sum
\* over all contributors, and the pay per hit is the amount after the cut
\* divided by the total of attacks, 0 without attacks.
C22_PayoutAsStated ==
    out.outcome = "plan"
        => PayArithmetic(IF payload.shareholder_count /= 0
                         THEN payload.total_sale * payload.shareholder_count
                                  * payload.shareholder_percentage
                         ELSE 0)

\* C22 amended: the cut is totalSale * shareholderCount * pct / 100 when
\* shareholderCount is greater than zero and 0 when it is zero or negative;
\* the rest as stated.
C22_Payout ==
    out.outcome = "plan"
        => PayArithmetic(IF payload.shareholder_count > 0
                         THEN payload.total_sale * payload.shareholder_count
                                  * payload.shareholder_percentage
                         ELSE 0)

\* C22 witness: a sale of 1000 with 2 shareholders at 5% is cut by 100 to
\* 900, and paid over 10 attacks at 90 per hit.
C22_Witness ==
    /\ out.outcome = "plan"
    /\ payload.total_sale = 1000
    /\ payload.shareholder_count = 2
    /\ payload.shareholder_percentage = 5
    /\ out.shareholder_cut = 100 * 100
    /\ out.total_after_cut = 100 * 900
    /\ out.total_attacks = 10
    /\ SameRatio(out.pay_per_hit, Ratio(100 * 90, 1))
    /\ Len(payload.contributors) = 2

\* the positions of the contributors with attacks
Hitters == {i \in DOMAIN payload.contributors : payload.contributors[i].attacks > 0}

\* C23: every contributor with attacks > 0 is itemized exactly once with
\* payout = attacks * payPerHit, no contributor with zero attacks is
\* itemized, and the totals that are reported (total attacks, total payout)
\* are those over all contributors, the ones left out of the list included.
C23_Itemized ==
    out.outcome = "plan"
        => LET cs == payload.contributors
               details == out.payout_details
               pph == out.pay_per_hit
           IN  /\ \A i \in Hitters :
                      /\ Cardinality({j \in DOMAIN details : details[j].name = cs[i].name}) = 1
                      /\ \A j \in DOMAIN details :
                             details[j].name = cs[i].name
                                 => /\ details[j].attacks = cs[i].attacks
                                    /\ SameRatio(details[j].payout,
                                                 Ratio(cs[i].attacks * pph.num, pph.den))
               /\ \A i \in DOMAIN cs \ Hitters :
                      \A j \in DOMAIN details : details[j].name /= cs[i].name
               /\ out.total_attacks = AttacksOver(cs, DOMAIN cs)
               /\ SameRatio(Ratio(out.total_payout, 1),
                            Ratio(AttacksOver(cs, DOMAIN cs) * pph.num, pph.den))

\* C30: every entry of the payout display bears the player id of the
\* contributor its name, attacks and payout were computed from, also when
\* contributors with zero attacks are left out.
C30_PlayerIdOfLine ==
    out.outcome = "plan"
        => /\ Len(out.player_chunks) = Len(out.payout_details)
           /\ \A i \in DOMAIN out.player_chunks :
                  \E k \in DOMAIN payload.contributors :
                      /\ payload.contributors[k].name = out.player_chunks[i].name
                      /\ payload.contributors[k].id = out.player_chunks[i].player_id
                      /\ payload.contributors[k].attacks = out.player_chunks[i].attacks

\* C30 witness: the fetched list holds a contributor with zero attacks ahead
\* of two with attacks; two entries are displayed, the one with more attacks
\* first.
C30_Witness ==
    /\ out.outcome = "plan"
    /\ Len(payload.contributors) = 3
    /\ payload.contributors[1].attacks = 0
    /\ payload.contributors[2].attacks = 5
    /\ payload.contributors[3].attacks = 10
    /\ Len(out.player_chunks) = 2
    /\ out.player_chunks[1].player_id = "3"
    /\ out.player_chunks[2].player_id = "2"

\* ------------------------------------------------------------------------
\* notify_users (lines 243-266), called from check_targets (line 2998) and
\* from check_war_status (line 3121)
\* ------------------------------------------------------------------------
\* user_preferences.items(): the keys in the order they were put in
UserKeys == [i \in 1..MaxUsers |-> str(10 + i)]

\* the notification_type a caller passes
TypeOf(caller) == IF caller = "check_targets" THEN "targets" ELSE "war"

\* Line 248: prefs.get("notify_<type>", False)
Subscribed(prefs, type) ==
    IF type = "targets" THEN prefs.notify_targets ELSE prefs.notify_war

\* Lines 244-254: the next user at or after position i who subscribed to
\* the type and was last notified at least 300 seconds before t; 0 when the
\* loop has run out.
NextDue(i, type, preferences, t) ==
    LET S == {j \in i..Len(UserKeys) :
                 /\ Subscribed(preferences[UserKeys[j]], type)
                 /\ t - preferences[UserKeys[j]].last_notified >= 300}
    IN  IF S = {} THEN 0 ELSE CHOOSE j \in S : \A k \in S : j <= k

\* the loop moves on from position i: it returns, or awaits bot.fetch_user
\* for the next user that is due, with current_time read at line 252
NotifyLoop(caller, i, preferences) ==
    LET j == NextDue(i, TypeOf(caller), preferences, clock)
    IN  IF j = 0 THEN [pc |-> "idle", idx |-> 0, current_time |-> 0]
        ELSE [pc |-> "fetch_user", idx |-> j, current_time |-> clock]

\* the seconds the clock is let run for, in steps of 100
MaxTicks == 4

\* 100 seconds pass while nothing is awaited in notify_users: a request
\* takes far less than that
Tick ==
    /\ clock < 300 + 100 * MaxTicks
    /\ \A c \in Callers : notifier[c].pc = "idle"
    /\ clock' = clock + 100
    /\ event' = NoEvent
    /\ UNCHANGED <<user_preferences, notifier, inbox, sw, upstream, current_war_data,
                   previous_war_id, claimed_targets, war_history, attack_logs, ct, ws,
                   payload, out>>

\* Lines 2998 and 3121: a caller awaits notify_users, which runs up to its
\* first await
notify_users(caller) ==
    /\ notifier[caller].pc = "idle"
    /\ notifier' = [notifier EXCEPT ![caller] = NotifyLoop(caller, 1, user_preferences)]
    /\ event' = [NoEvent EXCEPT !.op = "notify_users", !.tag = TypeOf(caller)]
    /\ UNCHANGED <<user_preferences, clock, inbox, sw, upstream, current_war_data,
                   previous_war_id, claimed_targets, war_history, attack_logs, ct, ws,
                   payload, out>>

\* Line 256: bot.fetch_user returns, or raises and the loop goes on (line 265)
N_FetchUser(caller) ==
    /\ notifier[caller].pc = "fetch_user"
    /\ \E fetched \in BOOLEAN :
         notifier' = [notifier EXCEPT ![caller] =
                         IF fetched THEN [@ EXCEPT !.pc = "send"]
                         ELSE NotifyLoop(caller, @.idx + 1, user_preferences)]
    /\ event' = NoEvent
    /\ UNCHANGED <<user_preferences, clock, inbox, sw, upstream, current_war_data,
                   previous_war_id, claimed_targets, war_history, attack_logs, ct, ws,
                   payload, out>>

\* Lines 257-265: user.send returns and last_notified is set to the time
\* read before the awaits, or it raises; the loop goes on
N_Send(caller) ==
    /\ notifier[caller].pc = "send"
    /\ \E sent \in BOOLEAN :
         LET n == notifier[caller]
             user_id == UserKeys[n.idx]
             preferences == IF sent
                            THEN [user_preferences EXCEPT
                                     ![user_id].last_notified = n.current_time]
                            ELSE user_preferences
         IN  /\ user_preferences' = preferences
             /\ inbox' = IF sent THEN (user_id :> clock) @@ inbox ELSE inbox
             /\ notifier' = [notifier EXCEPT ![caller] =
                                NotifyLoop(caller, n.idx + 1, preferences)]
             /\ event' = IF sent
                         THEN [NoEvent EXCEPT !.op = "dm", !.arg = int(user_id),
                                              !.tag = TypeOf(caller)]
                         ELSE NoEvent
    /\ UNCHANGED <<clock, sw, upstream, current_war_data, previous_war_id,
                   claimed_targets, war_history, attack_logs, ct, ws, payload, out>>

\* Lines 233-238 with what the users chose in /notifications
Preferences ==
    [notify_targets : BOOLEAN, notify_war : BOOLEAN, notify_chain : {FALSE},
     last_notified : {0}]

NotifyInit ==
    /\ upstream = [cur |-> 0, last |-> 0, our |-> 0]
    /\ current_war_data = HeldSnapshot
    /\ previous_war_id = "1"
    /\ claimed_targets = EmptyDict
    /\ war_history = <<>>
    /\ attack_logs = EmptyDict
    /\ ct = [pc |-> "idle", war_id |-> None, idx |-> 0, user |-> 0, reported |-> None]
    /\ ws = [pc |-> "idle"]
    /\ event = NoEvent
    /\ payload = NoPayload
    /\ out = NoOut
    /\ user_preferences \in [{UserKeys[i] : i \in 1..MaxUsers} -> Preferences]
    /\ clock = 300
    /\ notifier = [c \in Callers |-> [pc |-> "idle", idx |-> 0, current_time |-> 0]]
    /\ inbox = EmptyDict
    /\ sw = [pc |-> "idle"]

NotifyCall == \E c \in Callers : notify_users(c)

NotifyFetchUser == \E c \in Callers : N_FetchUser(c)

NotifySend == \E c \in Callers : N_Send(c)

NotifyNext == Tick \/ NotifyCall \/ NotifyFetchUser \/ NotifySend

NotifySpec == NotifyInit /\ [][NotifyNext]_vars

\* C24: whatever the types of the notifications and however the callers of
\* notify_users interleave, a notification is delivered to a user at least
\* 300 seconds after the notification that user received before it.
C24_QuietPeriod ==
    [][(event'.op = "dm" /\ str(event'.arg) \in DOMAIN inbox)
          => inbox'[str(event'.arg)] - inbox[str(event'.arg)] >= 300]_vars

\* ------------------------------------------------------------------------
\* The two timer tasks started in on_ready (lines 3274-3275)
\* ------------------------------------------------------------------------
PollersNext == Server \/ CheckTargets \/ CheckWarStatus

PollersSpec == Init /\ [][PollersNext]_vars

\* C25: two poll cycles never overlap: check_targets and check_war_status
\* are never both suspended in the middle of a cycle.
C25_NoOverlap == ~(ct.pc /= "idle" /\ ws.pc /= "idle")

\* the member the loop of check_targets is at
CtMember == int(MemberKeys[ct.idx])

\* C26: nothing is awaited between a read and the write of the claim
\* registry that depends on it: when check_targets posts a member as
\* available, and when it records the reaction claim for that member, the
\* member has no claim in the registry at that moment.
C26_CheckThenAct ==
    [][/\ (ct.pc = "userinfo" /\ ct'.pc = "post") => CtMember \notin DOMAIN claimed_targets
       /\ (ct.pc = "edit" /\ claimed_targets' /= claimed_targets)
              => CtMember \notin DOMAIN claimed_targets]_vars

\* the wars with an entry in war_history
Recorded(history) == {history[i].war_id : i \in DOMAIN history}

\* a check_targets poll that reports an ongoing war other than the one of
\* a non-null previous_war_id
DirectTransition ==
    /\ event'.op = "check_targets"
    /\ event'.result = "war"
    /\ previous_war_id /= None
    /\ event'.war /= previous_war_id

\* C27: on a direct transition from war A to war B the cycle empties the
\* claim registry, then announces and records the result of A, then sets
\* previous_war_id to B, and only then surfaces targets of B; a cycle that
\* found an ongoing war and ran to its end leaves previous_war_id at that
\* war's id.
C27_DirectTransition ==
    [][/\ DirectTransition => claimed_targets' = EmptyDict
       /\ (previous_war_id /= None /\ previous_war_id' /= previous_war_id)
              => /\ previous_war_id \in Recorded(war_history')
                 /\ previous_war_id' = ct'.war_id
       /\ ct'.pc \in {"members", "userinfo", "post", "wait", "edit"}
              => previous_war_id' = ct'.war_id
       /\ (ct.pc \in {"members", "userinfo", "post", "wait", "edit"} /\ ct'.pc = "idle")
              => previous_war_id' = ct.war_id]_vars

\* C28: a war-status tick of the war whose scores the preceding war-status
\* tick saved in the snapshot compares the new scores with those saved
\* scores: it notifies exactly when the lead moved by at least 500 or the
\* leader flipped since then, so a tick with unchanged scores does not
\* notify (the notification for a war about to end is not modelled).
C28_DeltaSincePreviousTick ==
    [][(/\ event'.op = "check_war_status"
        /\ event'.result = "war"
        /\ "last_our_score" \in DOMAIN current_war_data
        /\ current_war_data["war_id"] = event'.war)
          => (ws'.pc = "notify"
                <=> ShouldNotify(current_war_data["last_our_score"],
                                 current_war_data["last_opponent_score"],
                                 current_war_data'["last_our_score"],
                                 current_war_data'["last_opponent_score"]))]_vars

\* ------------------------------------------------------------------------
\* show_war_status (lines 566-601)
\* ------------------------------------------------------------------------
\* The command is run; it runs up to get_json in get_opponent_faction.
SW_Call ==
    /\ sw.pc = "idle"
    /\ sw' = [sw EXCEPT !.pc = "fetch"]
    /\ event' = NoEvent
    /\ UNCHANGED <<dispatch, upstream, current_war_data, previous_war_id, claimed_targets,
                   war_history, attack_logs, ct, ws, payload, out>>

\* Lines 570-594: the response arrives; with an ongoing war and no
\* "our_faction_name" in current_war_data the faction's name is requested.
SW_Poll ==
    /\ sw.pc = "fetch"
    /\ \E resp \in Responses(upstream) :
         LET r == get_opponent_faction(resp, current_war_data)
         IN  /\ current_war_data' = r.cwd
             /\ event' = PollEvent("show_war_status", resp, r)
             /\ sw' = [sw EXCEPT !.pc = IF r.outcome = "war"
                                           /\ "our_faction_name" \notin DOMAIN r.cwd
                                        THEN "name_fetch" ELSE "idle"]
    /\ UNCHANGED <<dispatch, upstream, previous_war_id, claimed_targets, war_history,
                   attack_logs, ct, ws, payload, out>>

\* Lines 594-599: the faction's name arrives and is written into
\* current_war_data, or get_json raises and the default name is used.
SW_Name ==
    /\ sw.pc = "name_fetch"
    /\ \E got \in BOOLEAN :
         current_war_data' = IF got THEN ("our_faction_name" :> "Ours") @@ current_war_data
                             ELSE current_war_data
    /\ sw' = [sw EXCEPT !.pc = "idle"]
    /\ event' = NoEvent
    /\ UNCHANGED <<dispatch, upstream, previous_war_id, claimed_targets, war_history,
                   attack_logs, ct, ws, payload, out>>

ShowWarStatus == SW_Call \/ SW_Poll \/ SW_Name

StatusNext == Server \/ CheckWarStatus \/ ShowWarStatus

StatusSpec == Init /\ [][StatusNext]_vars

\* C29: in every reachable state current_war_data is empty or a complete
\* snapshot with war_id, opponent_id and start_time: no handler writes a
\* field into a snapshot that another cycle has emptied or replaced in the
\* meantime.
C29_SnapshotWhole ==
    \/ current_war_data = EmptyDict
    \/ {"war_id", "opponent_id", "start_time"} \subseteq DOMAIN current_war_data

==========================================================================
